---- MODULE Spec2Model ----
(***************************************************************************)
(* A model of mimerender (src/src/mimerender.py): the media-type registry, *)
(* the negotiation done by the decorator MimeRenderBase.__call__, the      *)
(* dispatch wrapper around a handler, the header fixup _fix_headers and    *)
(* the exception mapping helper map_exceptions.  The host adapter is the   *)
(* dictionary-backed one the unit tests use (TestMimeRender).              *)
(*                                                                         *)
(* Python strings that the code only compares are TLA+ strings.  Header    *)
(* values, which the code takes apart (strip, lower, regular-expression    *)
(* split) and concatenates, are sequences of lexical chunks: a word, a     *)
(* comma "," or a blank " ".  None is the string None where the code holds *)
(* a string, and the empty tuple where it holds an Accept header.          *)
(***************************************************************************)
EXTENDS Integers, Sequences, FiniteSets, TLC

(***************************************************************************)
(* Bounds of the model.                                                    *)
(***************************************************************************)
MaxRenderers == 2
MaxHeaders == 2
MaxVaryLen == 4
MaxMimeTypes == 2

None == "<None>"

(***************************************************************************)
(* Generic helpers.                                                        *)
(***************************************************************************)
Range(s) == { s[i] : i \in 1..Len(s) }

RECURSIVE SeqsUpTo(_, _)
SeqsUpTo(S, n) ==
    IF n = 0 THEN { <<>> }
    ELSE LET shorter == SeqsUpTo(S, n - 1)
         IN  shorter \cup { Append(s, x) : s \in shorter, x \in S }

Distinct(s) == \A i, j \in 1..Len(s) : i # j => s[i] # s[j]

Reverse(s) == [ i \in 1..Len(s) |-> s[Len(s) + 1 - i] ]

\* list.remove(x): drops the first occurrence of x
RemoveFirst(s, x) ==
    LET idx == { i \in 1..Len(s) : s[i] = x }
    IN  IF idx = {} THEN s
        ELSE LET k == CHOOSE i \in idx : \A j \in idx : i <= j
             IN  SubSeq(s, 1, k - 1) \o SubSeq(s, k + 1, Len(s))

(***************************************************************************)
(* The registry _MIME_TYPES as the module defines it.                      *)
(***************************************************************************)
BaselineOrder ==
    << "xml", "json", "jsonld", "jsonp", "bson", "yaml", "xhtml", "html",
       "txt", "csv", "tsv", "rss", "rdf", "atom", "m3u", "pls", "xspf",
       "ical", "kml", "kmz" >>

_MIME_TYPES ==
    [ xml    |-> << "application/xml", "text/xml", "application/x-xml" >>,
      json   |-> << "application/json" >>,
      jsonld |-> << "application/ld+json" >>,
      jsonp  |-> << "application/javascript" >>,
      bson   |-> << "application/bson" >>,
      yaml   |-> << "application/x-yaml", "text/yaml" >>,
      xhtml  |-> << "application/xhtml+xml" >>,
      html   |-> << "text/html" >>,
      txt    |-> << "text/plain" >>,
      csv    |-> << "text/csv" >>,
      tsv    |-> << "text/tab-separated-values" >>,
      rss    |-> << "application/rss+xml" >>,
      rdf    |-> << "application/rdf+xml" >>,
      atom   |-> << "application/atom+xml" >>,
      m3u    |-> << "audio/x-mpegurl", "application/x-winamp-playlist",
                    "audio/mpeg-url", "audio/mpegurl" >>,
      pls    |-> << "audio/x-scpls" >>,
      xspf   |-> << "application/xspf+xml" >>,
      ical   |-> << "text/calendar" >>,
      kml    |-> << "application/vnd.google-earth.kml+xml" >>,
      kmz    |-> << "application/vnd.google-earth.kmz" >> ]

\* _get_mime_types(shortname): the sequence, or a MimeRenderException
KnownShort(reg, shortname) == shortname \in DOMAIN reg
_get_mime_types(reg, shortname) == reg[shortname]

\* only the first media type of each format looked at
_get_short_mime_first_type_only(reg, order, mime) ==
    LET hits == { i \in 1..Len(order) :
                    reg[order[i]] # <<>> /\ reg[order[i]][1] = mime }
    IN  IF hits = {} THEN None
        ELSE order[CHOOSE i \in hits : \A j \in hits : i <= j]

\* _get_short_mime(mime): the first short name, in the dictionary's order,
\* whose sequence holds mime; None stands for the MimeRenderException
_get_short_mime(reg, order, mime) ==
    LET hits == { i \in 1..Len(order) : mime \in Range(reg[order[i]]) }
    IN  IF hits = {} THEN None
        ELSE order[CHOOSE i \in hits : \A j \in hits : i <= j]

\* _MIME_TYPES[shortname] = mime_types: a new key goes last, a key that is
\* there keeps its place
SetItem(r, shortname, mime_types) ==
    [ types |-> [ k \in DOMAIN r.types \cup { shortname } |->
                    IF k = shortname THEN mime_types ELSE r.types[k] ],
      order |-> IF shortname \in DOMAIN r.types THEN r.order
                ELSE Append(r.order, shortname) ]

\* the registration without its test
register_mime_unchecked(r, shortname, mime_types) ==
    SetItem(r, shortname, mime_types)

\* register_mime(shortname, mime_types), lines 59-71: the registry after the
\* call; a registered short name raises and leaves it as it is
register_mime(r, shortname, mime_types) ==
    IF shortname \in DOMAIN r.types THEN r
    ELSE SetItem(r, shortname, mime_types)

(***************************************************************************)
(* mimeparse, the library behind _best_mime.  A media range is a string    *)
(* "type/subtype" with a quality q in tenths; an Accept header is the      *)
(* sequence of its comma-separated ranges.  parse_mime_type splits the     *)
(* full type at its single "/", and fails on a string that has none.       *)
(***************************************************************************)
MimeParts ==
    { << "application/xml", "application", "xml" >>,
      << "text/xml", "text", "xml" >>,
      << "application/x-xml", "application", "x-xml" >>,
      << "application/json", "application", "json" >>,
      << "application/ld+json", "application", "ld+json" >>,
      << "application/javascript", "application", "javascript" >>,
      << "application/bson", "application", "bson" >>,
      << "application/x-yaml", "application", "x-yaml" >>,
      << "text/yaml", "text", "yaml" >>,
      << "application/xhtml+xml", "application", "xhtml+xml" >>,
      << "text/html", "text", "html" >>,
      << "text/plain", "text", "plain" >>,
      << "text/csv", "text", "csv" >>,
      << "text/tab-separated-values", "text", "tab-separated-values" >>,
      << "application/rss+xml", "application", "rss+xml" >>,
      << "application/rdf+xml", "application", "rdf+xml" >>,
      << "application/atom+xml", "application", "atom+xml" >>,
      << "audio/x-mpegurl", "audio", "x-mpegurl" >>,
      << "application/x-winamp-playlist", "application", "x-winamp-playlist" >>,
      << "audio/mpeg-url", "audio", "mpeg-url" >>,
      << "audio/mpegurl", "audio", "mpegurl" >>,
      << "audio/x-scpls", "audio", "x-scpls" >>,
      << "application/xspf+xml", "application", "xspf+xml" >>,
      << "text/calendar", "text", "calendar" >>,
      << "application/vnd.google-earth.kml+xml", "application",
         "vnd.google-earth.kml+xml" >>,
      << "application/vnd.google-earth.kmz", "application",
         "vnd.google-earth.kmz" >>,
      << "image/svg+xml", "image", "svg+xml" >>,
      << "application/x-svg", "application", "x-svg" >>,
      << "image/png", "image", "png" >>,
      << "*/*", "*", "*" >>,
      << "text/*", "text", "*" >>,
      << "application/*", "application", "*" >> }

WellFormed(full_type) == \E t \in MimeParts : t[1] = full_type

ParseMimeType(full_type) ==
    LET parts == CHOOSE t \in MimeParts : t[1] = full_type
    IN  [ type |-> parts[2], subtype |-> parts[3] ]

\* best_match parses every range of the header before it ranks anything
HeaderParses(accept_string) ==
    \A i \in 1..Len(accept_string) : WellFormed(accept_string[i].range)

\* parse_media_range: the parsed type with the quality of the range
ParseMediaRange(r) ==
    LET parts == CHOOSE t \in MimeParts : t[1] = r.range
    IN  [ type |-> parts[2], subtype |-> parts[3], q |-> r.q ]

\* parsed_header = [parse_media_range(r) for r in header.split(',')]
ParsedHeader(accept_string) ==
    [ i \in 1..Len(accept_string) |-> ParseMediaRange(accept_string[i]) ]

\* quality_and_fitness_parsed: scan the parsed ranges, keep the quality of
\* the best-fitting one; no fitting range leaves quality 0, fitness -1
RECURSIVE QualityScan(_, _, _, _)
QualityScan(target, ranges, i, best) ==
    IF i > Len(ranges) THEN best
    ELSE LET r == ranges[i]
             type_match == r.type \in { target.type, "*" } \/ target.type = "*"
             subtype_match ==
                 r.subtype \in { target.subtype, "*" } \/ target.subtype = "*"
             fitness == (IF r.type = target.type THEN 100 ELSE 0)
                        + (IF r.subtype = target.subtype THEN 10 ELSE 0)
         IN  IF type_match /\ subtype_match /\ fitness > best.fitness
             THEN QualityScan(target, ranges, i + 1,
                              [ fitness |-> fitness, q |-> r.q ])
             ELSE QualityScan(target, ranges, i + 1, best)

QualityAndFitness(mime_type, parsed_ranges) ==
    QualityScan(ParseMimeType(mime_type), parsed_ranges, 1,
                [ fitness |-> -1, q |-> 0 ])

\* the sort key (quality, fitness, position): a later position wins a tie
WeightLess(a, b) ==
    \/ a.qf.q < b.qf.q
    \/ a.qf.q = b.qf.q /\ a.qf.fitness < b.qf.fitness
    \/ a.qf.q = b.qf.q /\ a.qf.fitness = b.qf.fitness /\ a.pos < b.pos

\* weighted_matches: every supported type with its quality, fitness and
\* position
WeightedMatches(supported, parsed_header) ==
    [ pos \in 1..Len(supported) |->
        [ qf |-> QualityAndFitness(supported[pos], parsed_header),
          pos |-> pos ] ]

\* weighted_matches.sort() and its last element: the type of the greatest
\* weight, or "" when its quality is 0
LastSorted(supported, weighted) ==
    LET top == CHOOSE p \in 1..Len(supported) :
                   \A o \in 1..Len(supported) :
                       o # p => WeightLess(weighted[o], weighted[p])
    IN  IF weighted[top].qf.q # 0 THEN supported[top] ELSE ""

\* mimeparse.best_match(supported, header)
BestMatch(supported, accept_string) ==
    LastSorted(supported,
               WeightedMatches(supported, ParsedHeader(accept_string)))

\* _best_mime(supported, accept_string) for a header that parses
_best_mime(supported, accept_string) == BestMatch(supported, accept_string)

(***************************************************************************)
(* _fix_headers.  A header is a pair <<name, value>>; a value is a         *)
(* sequence of chunks.                                                     *)
(***************************************************************************)
LowerTable ==
    { << "Vary", "vary" >>, << "VARY", "vary" >>, << "vary", "vary" >>,
      << "Content-Type", "content-type" >>,
      << "content-type", "content-type" >>,
      << "CONTENT-TYPE", "content-type" >>,
      << "X-Y", "x-y" >>,
      << "Accept", "accept" >>, << "ACCEPT", "accept" >>,
      << "accept", "accept" >>, << "X", "x" >>, << "x", "x" >> }

\* str.lower() of a name or of one chunk
Lower(w) ==
    IF \E t \in LowerTable : t[1] = w
    THEN (CHOOSE t \in LowerTable : t[1] = w)[2]
    ELSE w

LowerValue(v) == [ i \in 1..Len(v) |-> Lower(v[i]) ]

IsSpace(c) == c = " "

\* str.strip(): drop the leading and the trailing blanks
RECURSIVE LStrip(_)
LStrip(v) == IF v # <<>> /\ IsSpace(Head(v)) THEN LStrip(Tail(v)) ELSE v

Strip(v) == Reverse(LStrip(Reverse(LStrip(v))))

\* VARY_SEPARATOR.split(v) for the pattern ",\s*": cut at every comma and
\* swallow the blanks that follow it
RECURSIVE SkipSpaces(_, _)
SkipSpaces(v, i) ==
    IF i <= Len(v) /\ IsSpace(v[i]) THEN SkipSpaces(v, i + 1) ELSE i

RECURSIVE SplitFrom(_, _, _, _)
SplitFrom(v, i, token, tokens) ==
    IF i > Len(v) THEN Append(tokens, token)
    ELSE IF v[i] = ","
         THEN SplitFrom(v, SkipSpaces(v, i + 1), <<>>, Append(tokens, token))
         ELSE SplitFrom(v, i + 1, Append(token, v[i]), tokens)

VARY_SEPARATOR_split(v) == SplitFrom(v, 1, <<>>, <<>>)

\* the test without lower(): "Accept" is not recognised
LacksAcceptCaseSensitive(v) ==
    << "accept" >> \notin Range(VARY_SEPARATOR_split(Strip(v)))

\* 'accept' not in VARY_SEPARATOR.split(v.strip().lower())
LacksAccept(v) ==
    << "accept" >> \notin Range(VARY_SEPARATOR_split(LowerValue(Strip(v))))

\* the value replaced instead of extended
FixVaryOverwrites(v) == IF LacksAccept(v) THEN << "Accept" >> ELSE v

FixVary(v) == IF LacksAccept(v) THEN v \o << ",", "Accept" >> ELSE v

FixOne(h) == IF Lower(h[1]) = "vary" THEN << h[1], FixVary(h[2]) >> ELSE h

_fix_headers(headers, content_type) ==
    LET fixed_headers == [ i \in 1..Len(headers) |-> FixOne(headers[i]) ]
        found_vary == \E i \in 1..Len(headers) : Lower(headers[i][1]) = "vary"
        found_content_type ==
            \E i \in 1..Len(headers) : Lower(headers[i][1]) = "content-type"
    IN  fixed_headers
          \o (IF found_vary THEN <<>> ELSE << << "Vary", << "Accept" >> >> >>)
          \o (IF found_content_type THEN <<>>
              ELSE << << "Content-Type", content_type >> >>)

(***************************************************************************)
(* The decorator MimeRenderBase.__call__: what it computes before it       *)
(* returns wrap.  A configuration is the record of its arguments;          *)
(* renderers is the sequence of <<shortname, renderer>> keyword arguments. *)
(***************************************************************************)
\* "not x" for a string or None
Falsy(x) == x \in { None, "" }

\* an index is <<>> for None and <<i>> for the integer i; "not idx" holds
\* for None and for 0
NoIdx == <<>>
FalsyIdx(idx) == idx = NoIdx \/ idx = << 0 >>

\* the instance's options never looked at
EffectiveConfigWithoutGlobals(self, c) == c

\* lines 164-171: an option that is not set falls back to the instance's
EffectiveConfig(self, c) ==
    [ renderers |-> c.renderers,
      default |-> IF Falsy(c.default)
                  THEN self.global_default ELSE c.default,
      override_arg_idx |->
          IF FalsyIdx(c.override_arg_idx)
          THEN self.global_override_arg_idx ELSE c.override_arg_idx,
      override_input_key |->
          IF Falsy(c.override_input_key)
          THEN self.global_override_input_key ELSE c.override_input_key,
      charset |-> IF Falsy(c.charset)
                  THEN self.global_charset ELSE c.charset,
      not_acceptable_callback |->
          IF Falsy(c.not_acceptable_callback)
          THEN self.global_not_acceptable_callback
          ELSE c.not_acceptable_callback ]

\* lines 175-178: the <<mime, renderer>> pairs in the order of the loops
RECURSIVE MimePairs(_, _, _)
MimePairs(reg, renderers, i) ==
    IF i > Len(renderers) THEN <<>>
    ELSE LET mimes == _get_mime_types(reg, renderers[i][1])
         IN  [ k \in 1..Len(mimes) |-> << mimes[k], renderers[i][2] >> ]
               \o MimePairs(reg, renderers, i + 1)

InitialSupported(reg, renderers) ==
    LET pairs == MimePairs(reg, renderers, 1)
    IN  [ k \in 1..Len(pairs) |-> pairs[k][1] ]

\* renderer_dict[mime] = renderer: the last assignment stays
RendererDict(reg, renderers) ==
    LET pairs == MimePairs(reg, renderers, 1)
    IN  [ m \in { pairs[k][1] : k \in 1..Len(pairs) } |->
            pairs[CHOOSE k \in 1..Len(pairs) :
                      /\ pairs[k][1] = m
                      /\ \A j \in 1..Len(pairs) : pairs[j][1] = m => j <= k][2] ]

\* lines 183-185: each default mime, last to first, is removed and appended
RECURSIVE MoveToEnd(_, _, _)
MoveToEnd(supported, mimes, i) ==
    IF i > Len(mimes) THEN supported
    ELSE MoveToEnd(Append(RemoveFirst(supported, mimes[i]), mimes[i]),
                   mimes, i + 1)

\* the default's mimes moved first to last: its last mime ends up last
DefaultLastUnreversed(supported, default_mimes) ==
    MoveToEnd(supported, default_mimes, 1)

DefaultLast(supported, default_mimes) ==
    MoveToEnd(supported, Reverse(default_mimes), 1)

\* the exception the decorator raises, or None (lines 155-189)
ConfigError(reg, e) ==
    IF e.renderers = <<>> THEN "ValueError"
    ELSE IF \E i \in 1..Len(e.renderers) : ~KnownShort(reg, e.renderers[i][1])
    THEN "MimeRenderException"
    ELSE IF Falsy(e.default)
    THEN IF InitialSupported(reg, e.renderers) = <<>>
         THEN "StopIteration" ELSE None
    ELSE IF ~KnownShort(reg, e.default) THEN "MimeRenderException"
    ELSE IF \E m \in Range(_get_mime_types(reg, e.default)) :
                m \notin Range(InitialSupported(reg, e.renderers))
    THEN "ValueError"
    ELSE IF _get_mime_types(reg, e.default) = <<>> THEN "IndexError"
    ELSE None

\* what wrap closes over: supported, renderer_dict, default_mime,
\* default_renderer and the effective options
Decorated(reg, e) ==
    LET renderer_dict == RendererDict(reg, e.renderers)
        initial == InitialSupported(reg, e.renderers)
        default_mime == IF Falsy(e.default) THEN initial[1]
                        ELSE _get_mime_types(reg, e.default)[1]
    IN  [ supported |-> IF Falsy(e.default) THEN initial
                        ELSE DefaultLast(initial,
                                         _get_mime_types(reg, e.default)),
          renderer_dict |-> renderer_dict,
          default_mime |-> default_mime,
          default_renderer |-> renderer_dict[default_mime],
          renderers |-> e.renderers,
          default |-> e.default,
          override_arg_idx |-> e.override_arg_idx,
          override_input_key |-> e.override_input_key,
          charset |-> e.charset,
          not_acceptable_callback |-> e.not_acceptable_callback ]

(***************************************************************************)
(* The negotiation of wrapper (lines 196-221), as a function of what the   *)
(* decorator computed, the positional arguments, the request parameter     *)
(* the adapter returns for override_input_key, and the Accept header the   *)
(* adapter returns (<<>> for None, <<ranges>> for a header).               *)
(***************************************************************************)
NoHeader == <<>>

\* "if accept_header:": neither None nor the empty string
Truthy(accept_header) == accept_header # NoHeader /\ accept_header[1] # <<>>

\* args[idx], Python's way: a negative index counts from the end
ArgPos(args, idx) == IF idx[1] >= 0 THEN idx[1] + 1 ELSE Len(args) + idx[1] + 1

Raise(exc) ==
    [ kind |-> "raise", exc |-> exc, mime |-> None, shortmime |-> None,
      renderer |-> None ]

\* lines 198-201: the positional argument, else the request parameter
OverrideValue(d, args, param) ==
    LET from_arg == IF d.override_arg_idx # NoIdx
                    THEN args[ArgPos(args, d.override_arg_idx)] ELSE None
    IN  IF Falsy(from_arg) /\ ~Falsy(d.override_input_key)
        THEN param ELSE from_arg

\* the header consulted before the override
SelectMimeHeaderFirst(d, override_mime, accept_header) ==
    IF Truthy(accept_header) /\ HeaderParses(accept_header[1])
       /\ _best_mime(d.supported, accept_header[1]) # ""
    THEN _best_mime(d.supported, accept_header[1])
    ELSE IF ~Falsy(override_mime) THEN override_mime
    ELSE IF Truthy(accept_header) THEN ""
    ELSE d.default_mime

\* lines 204-208: the override's mime, else the header's best match, else
\* the default
SelectMime(d, override_mime, accept_header) ==
    IF ~Falsy(override_mime) THEN override_mime
    ELSE IF Truthy(accept_header)
         THEN _best_mime(d.supported, accept_header[1])
         ELSE d.default_mime

\* the callback never asked
AnswersNotAcceptableNever(d, mime) == FALSE

\* lines 209-212: nothing selected and a callback to tell the client so
AnswersNotAcceptable(d, mime) ==
    Falsy(mime) /\ ~Falsy(d.not_acceptable_callback)

\* the first supported type instead of the default
SelectedPairFirstSupported(d, mime) ==
    IF Falsy(mime)
    THEN [ mime |-> d.supported[1],
           renderer |-> d.renderer_dict[d.supported[1]] ]
    ELSE [ mime |-> mime, renderer |-> d.renderer_dict[mime] ]

\* lines 210 and 220: the selected mime's renderer, or the default pair
SelectedPair(d, mime) ==
    IF Falsy(mime)
    THEN [ mime |-> d.default_mime, renderer |-> d.default_renderer ]
    ELSE [ mime |-> mime, renderer |-> d.renderer_dict[mime] ]

\* lines 209-221: the renderer of the negotiated mime, the 406 answer, or
\* the default renderer, and the short name handed to the context
Render(reg, order, d, shortmime, mime) ==
    LET pair == SelectedPair(d, mime)
        final_short == IF Falsy(shortmime)
                       THEN _get_short_mime(reg, order, pair.mime)
                       ELSE shortmime
    IN  IF ~Falsy(mime) /\ mime \notin DOMAIN d.renderer_dict
        THEN Raise("MimeRenderException")
        ELSE IF AnswersNotAcceptable(d, mime)
        THEN [ kind |-> "not_acceptable", exc |-> None, mime |-> None,
               shortmime |-> None, renderer |-> None ]
        ELSE IF final_short = None THEN Raise("MimeRenderException")
        ELSE [ kind |-> "selected", exc |-> None, mime |-> pair.mime,
               shortmime |-> final_short, renderer |-> pair.renderer ]

\* lines 196-221: the wrapper up to the call of the target
Negotiate(reg, order, d, args, param, accept_header) ==
    LET has_idx == d.override_arg_idx # NoIdx
        shortmime == OverrideValue(d, args, param)
        override_mime == IF Falsy(shortmime) THEN None
                         ELSE _get_mime_types(reg, shortmime)[1]
    IN  IF has_idx /\ ArgPos(args, d.override_arg_idx) \notin 1..Len(args)
        THEN Raise("IndexError")
        ELSE IF ~Falsy(shortmime) /\ ~KnownShort(reg, shortmime)
        THEN Raise("MimeRenderException")
        ELSE IF Falsy(override_mime) /\ Truthy(accept_header)
                /\ ~HeaderParses(accept_header[1])
        THEN Raise("MimeTypeParseException")
        ELSE Render(reg, order, d, shortmime,
                    SelectMime(d, override_mime, accept_header))

\* the charset forgotten
ContentTypeWithoutCharset(mime, charset) == << mime >>

\* lines 233-234
ContentType(mime, charset) ==
    IF Falsy(charset) THEN << mime >>
    ELSE << mime >> \o << "; charset=", charset >>

(***************************************************************************)
(* The shapes of a handler's result (lines 235-249): the payload alone     *)
(* ("dict") or a tuple of 1, 2 or 3 elements; tuples of any other length   *)
(* are "tuple0" and "tuple4".                                              *)
(***************************************************************************)
\* every tuple taken for a result
RecognizedAnyLength(r) == TRUE

\* lines 237-249: no ValueError
Recognized(r) == r.shape \in { "dict", "tuple1", "tuple2", "tuple3" }

\* the status of the tuple ignored
NormalStatusAlwaysOK(r) == "200 OK"

\* lines 236-245: the status of a 2- or 3-tuple, else '200 OK'
NormalStatus(r) ==
    IF r.shape \in { "tuple2", "tuple3" } THEN r.status ELSE "200 OK"

\* headers.items() of a dictionary: its (key, value) pairs
Items(dict) == [ i \in 1..Len(dict) |-> << dict[i].key, dict[i].value >> ]

\* lines 235-243: the headers of a 3-tuple, a dictionary's as its items,
\* else ()
NormalHeaders(r) ==
    IF r.shape # "tuple3" THEN <<>>
    ELSE IF r.headers_type = "dict" THEN Items(r.header_dict)
    ELSE r.headers

(***************************************************************************)
(* Exceptions: the test's MyException2 is a MyException1; the exceptions   *)
(* the library raises are Exceptions too.                                  *)
(***************************************************************************)
SubclassOf ==
    { << "MyException2", "MyException1" >>, << "MyException1", "Exception" >>,
      << "MyException2", "Exception" >>,
      << "MimeRenderException", "Exception" >>,
      << "MimeTypeParseException", "ValueError" >>,
      << "MimeTypeParseException", "Exception" >>,
      << "ValueError", "Exception" >>, << "IndexError", "Exception" >>,
      << "TypeError", "Exception" >> }

\* every exception taken for an instance of every class
IsInstanceAlways(exc, klass) == TRUE

IsInstance(exc, klass) == exc = klass \/ << exc, klass >> \in SubclassOf

\* the last matching rule instead of the first
LastRule(mapping, exc) ==
    LET hits == { i \in 1..Len(mapping) : IsInstance(exc, mapping[i][1]) }
    IN  IF hits = {} THEN 0 ELSE CHOOSE i \in hits : \A j \in hits : i >= j

\* map_exceptions: the first rule, in list order, that the exception is an
\* instance of; 0 when there is none
FirstRule(mapping, exc) ==
    LET hits == { i \in 1..Len(mapping) : IsInstance(exc, mapping[i][1]) }
    IN  IF hits = {} THEN 0 ELSE CHOOSE i \in hits : \A j \in hits : i <= j

(***************************************************************************)
(* Inputs of the model.                                                    *)
(***************************************************************************)
\* MimeRenderBase.__init__ arguments: all unset, or all set
NoGlobals ==
    [ global_default |-> None, global_override_arg_idx |-> NoIdx,
      global_override_input_key |-> None, global_charset |-> None,
      global_not_acceptable_callback |-> None ]

Instances ==
    { NoGlobals,
      [ global_default |-> "json", global_override_arg_idx |-> << -1 >>,
        global_override_input_key |-> "format", global_charset |-> "utf-8",
        global_not_acceptable_callback |-> "not_acceptable_callback" ] }

\* the formats renderers are given for; "svg" is not registered
BoundFormats == { "xml", "json", "svg" }

RendererOf(shortname) == "render_" \o shortname
ExcRendererOf(shortname) == "render_exception_" \o shortname

RendererLists ==
    { [ i \in 1..Len(names) |-> << names[i], RendererOf(names[i]) >> ] :
        names \in { n \in SeqsUpTo(BoundFormats, MaxRenderers) : Distinct(n) } }

Configs ==
    [ renderers : RendererLists,
      default : { None, "xml", "json", "svg" },
      override_arg_idx : { NoIdx, << 0 >>, << -1 >> },
      override_input_key : { None, "format" },
      charset : { None, "utf-8" },
      not_acceptable_callback : { None, "not_acceptable_callback" } ]

\* the configurations map_exceptions is given in the tests' style
ExcConfigs ==
    { [ renderers |-> << << "txt", ExcRendererOf("txt") >>,
                         << "xml", ExcRendererOf("xml") >> >>,
        default |-> "txt", override_arg_idx |-> NoIdx,
        override_input_key |-> None, charset |-> None,
        not_acceptable_callback |-> None ] }

\* the rules of the tests, the subclass first, and the same rules with the
\* superclass first
Mappings ==
    { << << "MyException2", "500 Crazy Internal Error" >>,
         << "MyException1", "400 Failed" >> >>,
      << << "MyException1", "400 Failed" >>,
         << "MyException2", "500 Crazy Internal Error" >> >> }

Range_(r, q) == [ range |-> r, q |-> q ]

AcceptHeaders ==
    { NoHeader,
      << <<>> >>,
      << << Range_("*/*", 10) >> >>,
      << << Range_("application/json", 10) >> >>,
      << << Range_("image/png", 10) >> >>,
      << << Range_("text", 10) >> >>,
      << << Range_("application/json", 5), Range_("text/*", 10) >> >> }

RequestParameters == { None, "", "xml", "html", "bogus" }

ArgLists == { <<>>, << "" >>, << "json" >> }

HandlerHeaders ==
    { << << "Vary", << "X" >> >>, << "X-Y", << "Z" >> >> >>,
      << << "Content-Type", << "text/html" >> >> >>,
      << << "content-type", << "text/html" >> >>,
         << "vary", << "accept" >> >> >> }

HandlerExceptions == { "MyException1", "MyException2", "Exception" }

\* headers a handler gives as a dictionary: its entries in insertion order
HandlerHeaderDicts ==
    { << [ key |-> "X-Y", value |-> << "Z" >> ] >>,
      << [ key |-> "vary", value |-> << "X" >> ],
         [ key |-> "X-Y", value |-> << "Z" >> ] >> }

\* what the handler returns: the payload alone or in a tuple; the headers
\* of a 3-tuple are a sequence of pairs (headers) or a dictionary
\* (header_dict), as headers_type tells
Returns ==
    { [ shape |-> sh, payload |-> "payload", status |-> None,
        headers_type |-> "tuple", headers |-> <<>>, header_dict |-> <<>> ] :
        sh \in { "dict", "tuple1", "tuple0", "tuple4" } }
    \cup { [ shape |-> "tuple2", payload |-> "payload",
             status |-> "404 Not Found", headers_type |-> "tuple",
             headers |-> <<>>, header_dict |-> <<>> ] }
    \cup { [ shape |-> "tuple3", payload |-> "payload",
             status |-> "404 Not Found", headers_type |-> "tuple",
             headers |-> h, header_dict |-> <<>> ] : h \in HandlerHeaders }
    \cup { [ shape |-> "tuple3", payload |-> "payload",
             status |-> "666 Armaggedon", headers_type |-> "dict",
             headers |-> <<>>, header_dict |-> h ] :
             h \in HandlerHeaderDicts }

NoResult == [ shape |-> None, payload |-> None, status |-> None,
              headers_type |-> "tuple", headers |-> <<>>,
              header_dict |-> <<>> ]

NoNegotiation == [ kind |-> None, exc |-> None, mime |-> None,
                   shortmime |-> None, renderer |-> None ]

NoLookup == [ op |-> None, mime |-> None, shortmime |-> None,
              mime_types |-> <<>> ]

ContextKeys ==
    { "mimerender_shortmime", "mimerender_mime", "mimerender_renderer" }

(***************************************************************************)
(* The state.                                                              *)
(***************************************************************************)
VARIABLES
    self,               \* the instance's global_* options
    config,             \* <<>> or <<the decorator's keyword arguments>>
    lookup,             \* the last call of the registry: register_mime's
                        \*   arguments, or _get_short_mime's and its results
    registry,           \* _MIME_TYPES: [types, order]
    wrapper,            \* <<>> or <<what the decorated handler closes over>>
    helper,             \* the same for map_exceptions' helper
    mapping,            \* map_exceptions' rules, <<>> without the layer
    config_error,       \* the exception a decoration raised, or None
    accept_header,      \* the adapter's Accept header
    request_parameter,  \* the adapter's value for override_input_key
    target_args,        \* self.target_args
    pc,                 \* where the request is
    phase,              \* "main": the handler's wrapper; "helper": helper's
    negotiated,         \* mime, shortmime, renderer of the running wrapper
    ctx,                \* the adapter's context variables
    result,             \* what the target returned
    raised,             \* the exception in flight or propagated, or None
    handler_calls,      \* calls of the user's handler
    renderer_calls,     \* renderers called, in order
    callback_calls,     \* not_acceptable_callback's arguments, in order
    emitted,            \* _make_response's arguments, in order
    status,             \* the adapter's status
    headers,            \* the adapter's header dictionary
    fix_in,             \* header fixup alone: the input list
    fix_type,           \*   the content type
    fix_once,           \*   _fix_headers of the input
    fix_twice,          \*   _fix_headers of that
    environ,            \* WSGI: each request's environ dictionary
    start_response,     \*   the calls each request's start_response got
    req_pc,             \*   where each request's wrapper call is
    req_key,            \*   how many context variables it has set, cleared
    req_accept,         \*   its local accept_header
    req_negotiated,     \*   its local mime, shortmime, renderer
    req_seen,           \*   the context variables its handler found
    req_raised          \*   the exception that left its wrapper, or None

vars ==
    << self, config, lookup, registry, wrapper, helper, mapping,
       config_error, accept_header, request_parameter, target_args, pc, phase, negotiated, ctx, result,
       raised, handler_calls, renderer_calls, callback_calls, emitted, status,
       headers, fix_in, fix_type, fix_once, fix_twice, environ,
       start_response, req_pc, req_key, req_accept, req_negotiated, req_seen,
       req_raised >>

fix_vars == << fix_in, fix_type, fix_once, fix_twice >>

wsgi_vars ==
    << environ, start_response, req_pc, req_key, req_accept, req_negotiated,
       req_seen, req_raised >>

Init ==
    /\ self \in Instances
    /\ config = <<>>
    /\ lookup = NoLookup
    /\ registry = [ types |-> _MIME_TYPES, order |-> BaselineOrder ]
    /\ wrapper = <<>>
    /\ helper = <<>>
    /\ mapping = <<>>
    /\ config_error = None
    /\ accept_header = NoHeader
    /\ request_parameter = None
    /\ target_args = <<>>
    /\ pc = "new"
    /\ phase = "main"
    /\ negotiated = NoNegotiation
    /\ ctx = <<>>
    /\ result = NoResult
    /\ raised = None
    /\ handler_calls = 0
    /\ renderer_calls = <<>>
    /\ callback_calls = <<>>
    /\ emitted = <<>>
    /\ status = None
    /\ headers = <<>>
    /\ fix_in = <<>>
    /\ fix_type = <<>>
    /\ fix_once = <<>>
    /\ fix_twice = <<>>
    /\ environ = <<>>
    /\ start_response = <<>>
    /\ req_pc = <<>>
    /\ req_key = <<>>
    /\ req_accept = <<>>
    /\ req_negotiated = <<>>
    /\ req_seen = <<>>
    /\ req_raised = <<>>

(***************************************************************************)
(* The adapter (TestMimeRender).                                           *)
(***************************************************************************)
\* _set_context_var for each of the three variables (lines 222-227)
SetContext(c, n) ==
    [ k \in DOMAIN c \cup ContextKeys |->
        IF k = "mimerender_shortmime" THEN n.shortmime
        ELSE IF k = "mimerender_mime" THEN n.mime
        ELSE IF k = "mimerender_renderer" THEN n.renderer
        ELSE c[k] ]

\* only the first variable cleared
ClearContextFirstOnly(c) ==
    [ k \in DOMAIN c \ { "mimerender_shortmime" } |-> c[k] ]

\* _clear_context_var for each of them (lines 231-232)
ClearContext(c) == [ k \in DOMAIN c \ ContextKeys |-> c[k] ]

\* _make_response's loop: self.headers[k] = v
RECURSIVE StoreHeaders(_, _, _)
StoreHeaders(dict, hs, i) ==
    IF i > Len(hs) THEN dict
    ELSE StoreHeaders([ k \in DOMAIN dict \cup { hs[i][1] } |->
                          IF k = hs[i][1] THEN hs[i][2] ELSE dict[k] ],
                      hs, i + 1)

\* self._make_response(content, headers, status)
MakeResponse(content, hs, st) ==
    /\ emitted' = Append(emitted,
                         [ content |-> content, headers |-> hs, status |-> st ])
    /\ status' = st
    /\ headers' = StoreHeaders(headers, hs, 1)

\* the exception noted and the steps of the wrapper carried on with
PropagateAndContinue(exc) ==
    /\ raised' = exc
    /\ pc' = "returned"

\* an exception leaves the handler's wrapper: map_exceptions' wrapper, when
\* there is one, catches it; an exception that leaves helper propagates
Propagate(exc) ==
    /\ raised' = exc
    /\ pc' = IF phase = "main" /\ mapping # <<>> THEN "caught" ELSE "done"

(***************************************************************************)
(* The operations.                                                         *)
(***************************************************************************)
\* mimerender(**config) for some configuration: lines 155-189
Decorate ==
    /\ pc = "new"
    /\ \E c \in Configs :
       LET e == EffectiveConfig(self, c)
           err == ConfigError(registry.types, e)
       IN  /\ config' = << c >>
           /\ IF err # None
              THEN /\ config_error' = err
                   /\ pc' = "config_error"
                   /\ UNCHANGED wrapper
              ELSE /\ wrapper' = << Decorated(registry.types, e) >>
                   /\ pc' = "ready"
                   /\ UNCHANGED config_error
    /\ UNCHANGED << self, lookup, registry, helper, mapping, accept_header,
                    request_parameter, target_args, phase, negotiated, ctx,
                    result, raised, handler_calls, renderer_calls,
                    callback_calls, emitted, status, headers, fix_vars, wsgi_vars >>

\* mimerender.map_exceptions(mapping, **config) around the decorated
\* handler: lines 262-283
MapExceptions ==
    /\ pc = "ready"
    /\ mapping = <<>>
    /\ \E m \in Mappings, c \in ExcConfigs :
       LET e == EffectiveConfig(self, c)
           err == ConfigError(registry.types, e)
       IN  IF err # None
           THEN /\ config_error' = err
                /\ pc' = "config_error"
                /\ UNCHANGED << helper, mapping >>
           ELSE /\ helper' = << Decorated(registry.types, e) >>
                /\ mapping' = m
                /\ UNCHANGED << config_error, pc >>
    /\ UNCHANGED << self, config, lookup, registry, wrapper, accept_header,
                    request_parameter, target_args, phase, negotiated, ctx,
                    result, raised, handler_calls, renderer_calls,
                    callback_calls, emitted, status, headers, fix_vars, wsgi_vars >>

\* wrapper(*args), lines 194-227: with the outcome n of the negotiation,
\* answer 406, raise, or set the context variables and go on to the target
Enter(d, args, accept, ph, n) ==
    /\ target_args' = args
    /\ phase' = ph
    /\ negotiated' = n
    /\ result' = NoResult
    /\ IF n.kind = "raise"
       THEN /\ raised' = n.exc
            /\ pc' = IF ph = "main" /\ mapping # <<>>
                     THEN "caught" ELSE "done"
            /\ UNCHANGED << ctx, callback_calls, emitted, status, headers >>
       ELSE IF n.kind = "not_acceptable"
       THEN /\ callback_calls' =
                Append(callback_calls,
                       [ accept_header |-> accept,
                         supported |-> d.supported ])
            /\ MakeResponse([ by |-> d.not_acceptable_callback,
                              of |-> "entity" ],
                            << << "Content-Type", << "text/plain" >> >> >>,
                            "406 Not Acceptable")
            /\ raised' = None
            /\ pc' = "done"
            /\ UNCHANGED ctx
       ELSE /\ ctx' = SetContext(ctx, n)
            /\ raised' = None
            /\ pc' = "handler"
            /\ UNCHANGED << callback_calls, emitted, status, headers >>

\* a request reaches the decorated handler with some positional arguments,
\* request parameter and Accept header; the arguments vary where the
\* decoration names a position, the parameter where the wrapper reads it
Call ==
    /\ pc = "ready"
    /\ \E args \in ArgLists, param \in RequestParameters,
          accept \in AcceptHeaders :
           /\ config[1].override_arg_idx = NoIdx
                  /\ wrapper[1].override_arg_idx = NoIdx => args = << "" >>
           /\ Falsy(wrapper[1].override_input_key) => param = None
           /\ accept_header' = accept
           /\ request_parameter' = param
           /\ Enter(wrapper[1], args, accept, "main",
                    Negotiate(registry.types, registry.order, wrapper[1],
                              args, param, accept))
    /\ UNCHANGED << self, config, lookup, registry, wrapper, helper, mapping,
                    config_error,
                    handler_calls, renderer_calls, fix_vars, wsgi_vars >>

\* lines 228-232, the handler returns: the context variables are cleared
HandlerReturns ==
    /\ pc = "handler"
    /\ phase = "main"
    /\ handler_calls' = handler_calls + 1
    /\ ctx' = ClearContext(ctx)
    /\ result' \in Returns
    /\ pc' = "returned"
    /\ UNCHANGED << self, config, lookup, registry, wrapper, helper, mapping,
                    config_error,
                    accept_header, request_parameter, target_args, phase,
                    negotiated, raised, renderer_calls, callback_calls,
                    emitted, status, headers, fix_vars, wsgi_vars >>

\* lines 228-232, the handler raises: the context variables are cleared
\* and the exception leaves the wrapper
HandlerRaises ==
    /\ pc = "handler"
    /\ phase = "main"
    /\ handler_calls' = handler_calls + 1
    /\ ctx' = ClearContext(ctx)
    /\ \E exc \in HandlerExceptions : Propagate(exc)
    /\ UNCHANGED << self, config, lookup, registry, wrapper, helper, mapping,
                    config_error,
                    accept_header, request_parameter, target_args, phase,
                    negotiated, result, renderer_calls, callback_calls,
                    emitted, status, headers, fix_vars, wsgi_vars >>

\* lines 228-232 in helper's wrapper: helper(e, status) returns
\* (dict(exception=e), status) (lines 269-270)
HelperReturns ==
    /\ pc = "handler"
    /\ phase = "helper"
    /\ ctx' = ClearContext(ctx)
    /\ result' = [ shape |-> "tuple2", payload |-> target_args[1],
                   status |-> target_args[2], headers_type |-> "tuple",
                   headers |-> <<>>, header_dict |-> <<>> ]
    /\ pc' = "returned"
    /\ UNCHANGED << self, config, lookup, registry, wrapper, helper, mapping,
                    config_error,
                    accept_header, request_parameter, target_args, phase,
                    negotiated, raised, handler_calls, renderer_calls,
                    callback_calls, emitted, status, headers, fix_vars, wsgi_vars >>

\* lines 233-252: normalise the result, render, fix the headers, respond
Respond ==
    /\ pc = "returned"
    /\ \E renderer_fails \in BOOLEAN :
       LET d == IF phase = "main" THEN wrapper[1] ELSE helper[1]
           content_type == ContentType(negotiated.mime, d.charset)
           hs == NormalHeaders(result)
           st == NormalStatus(result)
       IN  IF ~Recognized(result)
           THEN /\ Propagate("ValueError")
                /\ UNCHANGED << renderer_calls, emitted, status, headers >>
           ELSE /\ renderer_calls' =
                        Append(renderer_calls, negotiated.renderer)
                /\ IF renderer_fails
                   THEN /\ Propagate("TypeError")
                        /\ UNCHANGED << emitted, status, headers >>
                   ELSE /\ MakeResponse([ by |-> negotiated.renderer,
                                          of |-> result.payload ],
                                        _fix_headers(hs, content_type), st)
                        /\ pc' = "done"
                        /\ UNCHANGED raised
    /\ UNCHANGED << self, config, lookup, registry, wrapper, helper, mapping,
                    config_error,
                    accept_header, request_parameter, target_args, phase,
                    negotiated, ctx, result, handler_calls, callback_calls,
                    fix_vars, wsgi_vars >>

\* map_exceptions' wrapper, lines 277-281: the first matching rule sends
\* the exception to helper; without one it is raised again
Caught ==
    /\ pc = "caught"
    /\ LET rule == FirstRule(mapping, raised)
       IN  IF rule = 0
           THEN /\ pc' = "done"
                /\ UNCHANGED << raised, target_args, phase, negotiated, ctx,
                                result, callback_calls, emitted, status,
                                headers >>
           ELSE Enter(helper[1], << raised, mapping[rule][2] >>,
                      accept_header, "helper",
                      Negotiate(registry.types, registry.order, helper[1],
                                << raised, mapping[rule][2] >>,
                                request_parameter, accept_header))
    /\ UNCHANGED << self, config, lookup, registry, wrapper, helper, mapping,
                    config_error,
                    accept_header, request_parameter, handler_calls,
                    renderer_calls, fix_vars, wsgi_vars >>

Next ==
    \/ Decorate
    \/ MapExceptions
    \/ Call
    \/ HandlerReturns
    \/ HandlerRaises
    \/ HelperReturns
    \/ Respond
    \/ Caught

Spec == Init /\ [][Next]_vars

(***************************************************************************)
(* Header fixup on its own: _fix_headers applied to a header list, and     *)
(* applied again to its own output.  The list holds up to MaxHeaders - 1   *)
(* plain headers, alone or after one Vary header with any value of up to   *)
(* MaxVaryLen chunks.                                                      *)
(***************************************************************************)
VaryChunks == { "Accept", "ACCEPT", "X", ",", " " }

VaryValues == SeqsUpTo(VaryChunks, MaxVaryLen)

VaryNames == { "Vary", "vary" }

PlainHeaders ==
    { << "Vary", << "X" >> >>,
      << "VARY", << "Accept", ",", "X" >> >>,
      << "Content-Type", << "text/html" >> >>,
      << "content-type", << "text/plain" >> >>,
      << "X-Y", << "Z" >> >> }

HeaderLists ==
    LET rest == SeqsUpTo(PlainHeaders, MaxHeaders - 1)
        rich == { << << n, v >> >> : n \in VaryNames, v \in VaryValues }
    IN  rest \cup { r \o t : r \in rich, t \in rest }

ContentTypes ==
    { ContentType(m, c) : m \in { "application/json" }, c \in { None, "utf-8" } }

InitFix ==
    /\ self = NoGlobals
    /\ config = <<>>
    /\ lookup = NoLookup
    /\ registry = [ types |-> _MIME_TYPES, order |-> BaselineOrder ]
    /\ wrapper = <<>>
    /\ helper = <<>>
    /\ mapping = <<>>
    /\ config_error = None
    /\ accept_header = NoHeader
    /\ request_parameter = None
    /\ target_args = <<>>
    /\ pc = "fix_input"
    /\ phase = "main"
    /\ negotiated = NoNegotiation
    /\ ctx = <<>>
    /\ result = NoResult
    /\ raised = None
    /\ handler_calls = 0
    /\ renderer_calls = <<>>
    /\ callback_calls = <<>>
    /\ emitted = <<>>
    /\ status = None
    /\ headers = <<>>
    /\ fix_in \in HeaderLists
    /\ fix_type \in ContentTypes
    /\ fix_once = <<>>
    /\ fix_twice = <<>>
    /\ environ = <<>>
    /\ start_response = <<>>
    /\ req_pc = <<>>
    /\ req_key = <<>>
    /\ req_accept = <<>>
    /\ req_negotiated = <<>>
    /\ req_seen = <<>>
    /\ req_raised = <<>>

\* headers = _fix_headers(headers, content_type)
FixHeaders ==
    /\ pc = "fix_input"
    /\ fix_once' = _fix_headers(fix_in, fix_type)
    /\ pc' = "fix_once"
    /\ UNCHANGED << self, config, lookup, registry, wrapper, helper, mapping,
                    config_error,
                    accept_header, request_parameter, target_args, phase,
                    negotiated, ctx, result, raised, handler_calls,
                    renderer_calls, callback_calls, emitted, status, headers,
                    fix_in, fix_type, fix_twice, wsgi_vars >>

\* the same call on the list the first call returned
FixHeadersAgain ==
    /\ pc = "fix_once"
    /\ fix_twice' = _fix_headers(fix_once, fix_type)
    /\ pc' = "fix_twice"
    /\ UNCHANGED << self, config, lookup, registry, wrapper, helper, mapping,
                    config_error,
                    accept_header, request_parameter, target_args, phase,
                    negotiated, ctx, result, raised, handler_calls,
                    renderer_calls, callback_calls, emitted, status, headers,
                    fix_in, fix_type, fix_once, wsgi_vars >>

NextFix == FixHeaders \/ FixHeadersAgain

SpecFix == InitFix /\ [][NextFix]_vars

(***************************************************************************)
(* The registry on its own: register_mime called any number of times with  *)
(* a new or a registered short name and a sequence of up to MaxMimeTypes   *)
(* media types, and _get_short_mime followed by _get_mime_types.           *)
(***************************************************************************)
\* "xml" is registered from the start, "svg" and "png" are not
RegisterNames == { "xml", "svg", "png" }

\* "text/xml" is a media type of "xml" already
RegisterMimes == { "image/svg+xml", "text/xml" }

RegisterSequences == SeqsUpTo(RegisterMimes, MaxMimeTypes)

\* "application/x-xml" is registered from the start, "text/*" never is
LookupMimes == RegisterMimes \cup { "application/x-xml", "text/*" }

InitReg ==
    /\ self = NoGlobals
    /\ config = <<>>
    /\ lookup = NoLookup
    /\ registry = [ types |-> _MIME_TYPES, order |-> BaselineOrder ]
    /\ wrapper = <<>>
    /\ helper = <<>>
    /\ mapping = <<>>
    /\ config_error = None
    /\ accept_header = NoHeader
    /\ request_parameter = None
    /\ target_args = <<>>
    /\ pc = "registry"
    /\ phase = "main"
    /\ negotiated = NoNegotiation
    /\ ctx = <<>>
    /\ result = NoResult
    /\ raised = None
    /\ handler_calls = 0
    /\ renderer_calls = <<>>
    /\ callback_calls = <<>>
    /\ emitted = <<>>
    /\ status = None
    /\ headers = <<>>
    /\ fix_in = <<>>
    /\ fix_type = <<>>
    /\ fix_once = <<>>
    /\ fix_twice = <<>>
    /\ environ = <<>>
    /\ start_response = <<>>
    /\ req_pc = <<>>
    /\ req_key = <<>>
    /\ req_accept = <<>>
    /\ req_negotiated = <<>>
    /\ req_seen = <<>>
    /\ req_raised = <<>>

\* register_mime(shortname, mime_types), lines 59-71
RegisterMime ==
    /\ pc = "registry"
    /\ \E shortname \in RegisterNames, mime_types \in RegisterSequences :
           /\ raised' = IF shortname \in DOMAIN registry.types
                        THEN "MimeRenderException" ELSE None
           /\ registry' = register_mime(registry, shortname, mime_types)
           /\ lookup' = [ op |-> "register_mime", mime |-> None,
                          shortmime |-> shortname, mime_types |-> mime_types ]
    /\ UNCHANGED << self, config, wrapper, helper, mapping,
                    config_error, accept_header, request_parameter,
                    target_args, pc, phase, negotiated, ctx, result,
                    handler_calls, renderer_calls, callback_calls, emitted,
                    status, headers, fix_vars, wsgi_vars >>

\* _get_short_mime(mime), lines 79-83, and _get_mime_types of the short
\* name it returned, lines 73-77
LookupShortMime ==
    /\ pc = "registry"
    /\ \E mime \in LookupMimes :
       LET shortmime == _get_short_mime(registry.types, registry.order, mime)
       IN  /\ raised' = IF shortmime = None
                        THEN "MimeRenderException" ELSE None
           /\ lookup' = [ op |-> "_get_short_mime", mime |-> mime,
                          shortmime |-> shortmime,
                          mime_types |->
                              IF shortmime = None THEN <<>>
                              ELSE _get_mime_types(registry.types,
                                                   shortmime) ]
    /\ UNCHANGED << self, config, registry, wrapper, helper, mapping,
                    config_error, accept_header, request_parameter,
                    target_args, pc, phase, negotiated, ctx, result,
                    handler_calls, renderer_calls, callback_calls, emitted,
                    status, headers, fix_vars, wsgi_vars >>

NextReg == RegisterMime \/ LookupShortMime

SpecReg == InitReg /\ [][NextReg]_vars

(***************************************************************************)
(* Requests after registrations: register_mime is called any number of     *)
(* times, as in SpecReg, then a handler is decorated on the registry as it *)
(* is by then, and a request is served.                                    *)
(***************************************************************************)
ServeRendererLists ==
    { << << "xml", RendererOf("xml") >> >>,
      << << "svg", RendererOf("svg") >> >>,
      << << "xml", RendererOf("xml") >>, << "svg", RendererOf("svg") >> >>,
      << << "svg", RendererOf("svg") >>, << "xml", RendererOf("xml") >> >> }

ServeConfigs ==
    [ renderers : ServeRendererLists,
      default : { None, "svg" },
      override_arg_idx : { NoIdx },
      override_input_key : { None },
      charset : { None },
      not_acceptable_callback : { None } ]

\* mimerender(**config) once the registrations are over: lines 155-189
DecorateRegistered ==
    /\ pc = "registry"
    /\ \E c \in ServeConfigs :
       LET e == EffectiveConfig(self, c)
           err == ConfigError(registry.types, e)
       IN  /\ config' = << c >>
           /\ IF err # None
              THEN /\ config_error' = err
                   /\ pc' = "config_error"
                   /\ UNCHANGED wrapper
              ELSE /\ wrapper' = << Decorated(registry.types, e) >>
                   /\ pc' = "ready"
                   /\ UNCHANGED config_error
    /\ UNCHANGED << self, lookup, registry, helper, mapping, accept_header,
                    request_parameter, target_args, phase, negotiated, ctx,
                    result, raised, handler_calls, renderer_calls,
                    callback_calls, emitted, status, headers, fix_vars,
                    wsgi_vars >>

NextServe ==
    \/ RegisterMime
    \/ DecorateRegistered
    \/ Call
    \/ HandlerReturns
    \/ HandlerRaises
    \/ Respond

SpecServe == InitReg /\ [][NextServe]_vars

(***************************************************************************)
(* The WSGI adapter under concurrent requests: _WSGIMimeRender keeps the   *)
(* arguments of the running call in self.target_args, a field of the       *)
(* adapter instance the wrappers of all requests share, and every adapter  *)
(* method finds environ and start_response there.  Each request calls the  *)
(* same decorated application with its own environ and start_response;     *)
(* the steps of the requests interleave at the adapter's method calls.  A  *)
(* handler that calls the decorated application again is the interleaving  *)
(* where the inner request runs from start to end at the outer's handler.  *)
(***************************************************************************)
Requests == { "A", "B" }

\* args of request r: (environ, start_response), each named by its owner
Args(r) == << r, r >>

WsgiAcceptHeaders ==
    { << << Range_("application/json", 10) >> >>,
      << << Range_("*/*", 10) >> >> }

WsgiEnvirons == { [ HTTP_ACCEPT |-> a ] : a \in WsgiAcceptHeaders }

WsgiConfig ==
    [ renderers |-> << << "xml", RendererOf("xml") >>,
                       << "json", RendererOf("json") >> >>,
      default |-> "xml", override_arg_idx |-> NoIdx,
      override_input_key |-> None, charset |-> None,
      not_acceptable_callback |-> None ]

\* the order of context_vars (lines 222-225)
ContextKeySeq ==
    << "mimerender_shortmime", "mimerender_mime", "mimerender_renderer" >>

ContextValue(n, key) ==
    IF key = "mimerender_shortmime" THEN n.shortmime
    ELSE IF key = "mimerender_mime" THEN n.mime
    ELSE n.renderer

\* environ[key] = value
SetItemOf(e, key, value) ==
    [ k \in DOMAIN e \cup { key } |-> IF k = key THEN value ELSE e[k] ]

\* del environ[key]
DelItemOf(e, key) == [ k \in DOMAIN e \ { key } |-> e[k] ]

\* the context variables an environ holds
ContextOf(e) == [ k \in DOMAIN e \cap ContextKeys |-> e[k] ]

InitWsgi ==
    /\ self = NoGlobals
    /\ config = << WsgiConfig >>
    /\ lookup = NoLookup
    /\ registry = [ types |-> _MIME_TYPES, order |-> BaselineOrder ]
    /\ wrapper = << Decorated(_MIME_TYPES,
                              EffectiveConfig(NoGlobals, WsgiConfig)) >>
    /\ helper = <<>>
    /\ mapping = <<>>
    /\ config_error = None
    /\ accept_header = NoHeader
    /\ request_parameter = None
    /\ target_args = <<>>
    /\ pc = "wsgi"
    /\ phase = "main"
    /\ negotiated = NoNegotiation
    /\ ctx = <<>>
    /\ result = NoResult
    /\ raised = None
    /\ handler_calls = 0
    /\ renderer_calls = <<>>
    /\ callback_calls = <<>>
    /\ emitted = <<>>
    /\ status = None
    /\ headers = <<>>
    /\ fix_in = <<>>
    /\ fix_type = <<>>
    /\ fix_once = <<>>
    /\ fix_twice = <<>>
    /\ environ \in [ Requests -> WsgiEnvirons ]
    /\ start_response = [ r \in Requests |-> <<>> ]
    /\ req_pc = [ r \in Requests |-> "idle" ]
    /\ req_key = [ r \in Requests |-> 0 ]
    /\ req_accept = [ r \in Requests |-> NoHeader ]
    /\ req_negotiated = [ r \in Requests |-> NoNegotiation ]
    /\ req_seen = [ r \in Requests |-> <<>> ]
    /\ req_raised = [ r \in Requests |-> None ]

spec_vars ==
    << self, config, lookup, registry, wrapper, helper, mapping,
       config_error, accept_header, request_parameter, pc, phase, negotiated,
       ctx, result, raised, handler_calls, renderer_calls, callback_calls,
       emitted, status, headers, fix_vars >>

\* _WSGIMimeRender._make_response (lines 432-435) called by request r:
\* start_response of self.target_args gets the status and the headers
WsgiMakeResponse(r, content, hs, st) ==
    start_response' =
        [ start_response EXCEPT ![target_args[2]] =
            Append(@, [ by |-> r, content |-> content, headers |-> hs,
                        status |-> st ]) ]

\* lines 194-195: self.target_args = args
WsgiEnter ==
    \E r \in Requests :
        /\ req_pc[r] = "idle"
        /\ target_args' = Args(r)
        /\ req_pc' = [ req_pc EXCEPT ![r] = "entered" ]
        /\ UNCHANGED << spec_vars, environ, start_response, req_key,
                        req_accept, req_negotiated, req_seen, req_raised >>

\* lines 196-221 with _get_accept_header of lines 420-422: the header of
\* the environ in self.target_args, and the negotiation on it
WsgiGetAccept ==
    \E r \in Requests :
        /\ req_pc[r] = "entered"
        /\ LET accept == environ[target_args[1]]["HTTP_ACCEPT"]
               n == Negotiate(registry.types, registry.order, wrapper[1],
                              Args(r), None, accept)
           IN  /\ req_accept' = [ req_accept EXCEPT ![r] = accept ]
               /\ req_negotiated' = [ req_negotiated EXCEPT ![r] = n ]
               /\ IF n.kind = "raise"
                  THEN /\ req_raised' = [ req_raised EXCEPT ![r] = n.exc ]
                       /\ req_pc' = [ req_pc EXCEPT ![r] = "done" ]
                       /\ UNCHANGED start_response
                  ELSE IF n.kind = "not_acceptable"
                  THEN /\ WsgiMakeResponse(
                              r, [ by |-> wrapper[1].not_acceptable_callback,
                                   of |-> "entity" ],
                              << << "Content-Type", << "text/plain" >> >> >>,
                              "406 Not Acceptable")
                       /\ req_pc' = [ req_pc EXCEPT ![r] = "done" ]
                       /\ UNCHANGED req_raised
                  ELSE /\ req_pc' = [ req_pc EXCEPT ![r] = "set" ]
                       /\ UNCHANGED << start_response, req_raised >>
        /\ UNCHANGED << spec_vars, target_args, environ, req_key, req_seen >>

\* lines 226-227 with _set_context_var of lines 424-426: the next context
\* variable goes into the environ in self.target_args
WsgiSetContext ==
    \E r \in Requests :
        /\ req_pc[r] = "set"
        /\ LET key == ContextKeySeq[req_key[r] + 1]
           IN  environ' =
                   [ environ EXCEPT ![target_args[1]] =
                       SetItemOf(@, key,
                                 ContextValue(req_negotiated[r], key)) ]
        /\ IF req_key[r] + 1 = Len(ContextKeySeq)
           THEN /\ req_key' = [ req_key EXCEPT ![r] = 0 ]
                /\ req_pc' = [ req_pc EXCEPT ![r] = "handler" ]
           ELSE /\ req_key' = [ req_key EXCEPT ![r] = @ + 1 ]
                /\ UNCHANGED req_pc
        /\ UNCHANGED << spec_vars, target_args, start_response, req_accept,
                        req_negotiated, req_seen, req_raised >>

\* line 229 with wsgi_wrap's wrapped (lines 406-412): the application runs
\* on the environ it was called with and finds the context variables there
WsgiHandler ==
    \E r \in Requests :
        /\ req_pc[r] = "handler"
        /\ req_seen' = [ req_seen EXCEPT ![r] = ContextOf(environ[r]) ]
        /\ req_pc' = [ req_pc EXCEPT ![r] = "clear" ]
        /\ UNCHANGED << spec_vars, target_args, environ, start_response,
                        req_key, req_accept, req_negotiated, req_raised >>

\* lines 230-232 with _clear_context_var of lines 428-430: the next context
\* variable is deleted from the environ in self.target_args; a variable
\* that is not there is a KeyError, which leaves the wrapper
WsgiClearContext ==
    \E r \in Requests :
        /\ req_pc[r] = "clear"
        /\ LET key == ContextKeySeq[req_key[r] + 1]
           IN  IF key \in DOMAIN environ[target_args[1]]
               THEN /\ environ' = [ environ EXCEPT ![target_args[1]] =
                                      DelItemOf(@, key) ]
                    /\ IF req_key[r] + 1 = Len(ContextKeySeq)
                       THEN /\ req_key' = [ req_key EXCEPT ![r] = 0 ]
                            /\ req_pc' = [ req_pc EXCEPT ![r] = "returned" ]
                       ELSE /\ req_key' = [ req_key EXCEPT ![r] = @ + 1 ]
                            /\ UNCHANGED req_pc
                    /\ UNCHANGED req_raised
               ELSE /\ req_raised' = [ req_raised EXCEPT ![r] = "KeyError" ]
                    /\ req_pc' = [ req_pc EXCEPT ![r] = "done" ]
                    /\ UNCHANGED << environ, req_key >>
        /\ UNCHANGED << spec_vars, target_args, start_response, req_accept,
                        req_negotiated, req_seen >>

\* lines 233-252 on the (body, status, headers) of wsgi_wrap, with
\* _make_response of lines 432-435
WsgiRespond ==
    \E r \in Requests :
        /\ req_pc[r] = "returned"
        /\ WsgiMakeResponse(
               r, [ by |-> req_negotiated[r].renderer, of |-> "body" ],
               _fix_headers(<<>>, ContentType(req_negotiated[r].mime,
                                              wrapper[1].charset)),
               "200 OK")
        /\ req_pc' = [ req_pc EXCEPT ![r] = "done" ]
        /\ UNCHANGED << spec_vars, target_args, environ, req_key, req_accept,
                        req_negotiated, req_seen, req_raised >>

NextWsgi ==
    \/ WsgiEnter
    \/ WsgiGetAccept
    \/ WsgiSetContext
    \/ WsgiHandler
    \/ WsgiClearContext
    \/ WsgiRespond

SpecWsgi == InitWsgi /\ [][NextWsgi]_vars

(***************************************************************************)
(* Properties of header fixup (SpecFix).                                   *)
(***************************************************************************)
IsVary(h) == Lower(h[1]) = "vary"
IsContentType(h) == Lower(h[1]) = "content-type"

\* C8: header fixup is idempotent: fixing the list that fixup returned, with
\* the same content type, returns that list again; no header is added and
\* no value changes.
C8_FixupIdempotent ==
    pc = "fix_twice" => fix_twice = fix_once

\* the first run extended a Vary value and appended a Content-Type, and the
\* second run has been made
C8_Witness ==
    /\ pc = "fix_twice"
    /\ \E i \in 1..Len(fix_in) :
           /\ IsVary(fix_in[i])
           /\ fix_once[i][2] = fix_in[i][2] \o << ",", "Accept" >>
    /\ Len(fix_once) = Len(fix_in) + 1
    /\ IsContentType(fix_once[Len(fix_once)])

\* a value that names Accept nowhere, in any letter case
NamesNoAccept(v) == \A i \in 1..Len(v) : Lower(v[i]) # "accept"

\* a value with the token Accept between commas or the ends of the value
ListsAccept(v) ==
    \E i \in 1..Len(v) :
        /\ v[i] = "Accept"
        /\ i = 1 \/ v[i - 1] = ","
        /\ i = Len(v) \/ v[i + 1] = ","

\* C9: Vary merge: without a Vary header fixup appends ("Vary", "Accept")
\* after the handler's headers; a Vary value that lacks Accept becomes the
\* original value followed by ",Accept"; a Vary value that lists Accept
\* stays as it is.
C9_VaryMerge ==
    pc = "fix_once" =>
        /\ Len(fix_once) >= Len(fix_in)
        /\ (\A i \in 1..Len(fix_in) : ~IsVary(fix_in[i])) =>
               /\ Len(fix_once) > Len(fix_in)
               /\ fix_once[Len(fix_in) + 1] = << "Vary", << "Accept" >> >>
               /\ \A i \in 1..Len(fix_in) : fix_once[i] = fix_in[i]
        /\ \A i \in 1..Len(fix_in) :
               IsVary(fix_in[i]) =>
                   /\ NamesNoAccept(fix_in[i][2]) =>
                          fix_once[i] = << fix_in[i][1],
                                           fix_in[i][2] \o << ",", "Accept" >> >>
                   /\ ListsAccept(fix_in[i][2]) => fix_once[i] = fix_in[i]
                   /\ \A j \in 1..Len(fix_once) :
                          IsVary(fix_once[j]) => j <= Len(fix_in)

\* "Vary: X" has become "Vary: X,Accept"
C9_Witness ==
    /\ pc = "fix_once"
    /\ \E i \in 1..Len(fix_in) :
           /\ fix_in[i] = << "Vary", << "X" >> >>
           /\ fix_once[i] = << "Vary", << "X", ",", "Accept" >> >>

\* only blanks from position i towards the start (step -1) or the end
\* (step 1) of the value, up to a comma or the value's end
RECURSIVE BlankUntilComma(_, _, _)
BlankUntilComma(v, i, step) ==
    IF i < 1 \/ i > Len(v) THEN TRUE
    ELSE IF v[i] = "," THEN TRUE
    ELSE IF v[i] = " " THEN BlankUntilComma(v, i + step, step)
    ELSE FALSE

\* one of the comma-separated tokens of the value, blanks around it taken
\* away, is Accept in any case
HasAcceptToken(v) ==
    \E i \in 1..Len(v) :
        /\ Lower(v[i]) = "accept"
        /\ BlankUntilComma(v, i - 1, -1)
        /\ BlankUntilComma(v, i + 1, 1)

\* C22: Vary token recognition: fixup finds the token Accept in a Vary
\* value in any case and with blanks on either side of it, among the
\* comma-separated tokens, and then leaves the value as it is; only a value
\* none of whose tokens is Accept gets ",Accept" appended, after the
\* original text unchanged.
C22_VaryTokenRecognition ==
    pc = "fix_once" =>
        \A i \in 1..Len(fix_in) :
            IsVary(fix_in[i]) =>
                IF HasAcceptToken(fix_in[i][2])
                THEN fix_once[i] = fix_in[i]
                ELSE fix_once[i] = << fix_in[i][1],
                                      fix_in[i][2] \o << ",", "Accept" >> >>

(***************************************************************************)
(* Properties of the dispatch wrapper (Spec).  They are stated in terms of *)
(* the request and the configuration, not of the negotiation's own steps.  *)
(***************************************************************************)
\* the handler's wrapper has negotiated the current request
MainNegotiated == phase = "main" /\ negotiated.kind # None

\* the positional argument the configuration points at exists
PositionalPresent ==
    \/ wrapper[1].override_arg_idx = NoIdx
    \/ /\ wrapper[1].override_arg_idx[1] < 0
       /\ -wrapper[1].override_arg_idx[1] <= Len(target_args)
    \/ /\ wrapper[1].override_arg_idx[1] >= 0
       /\ wrapper[1].override_arg_idx[1] < Len(target_args)

Positional ==
    IF wrapper[1].override_arg_idx = NoIdx THEN None
    ELSE IF wrapper[1].override_arg_idx[1] < 0
    THEN target_args[Len(target_args) + 1 + wrapper[1].override_arg_idx[1]]
    ELSE target_args[wrapper[1].override_arg_idx[1] + 1]

\* the explicit override of the request: the positional argument, or the
\* request parameter when that is absent or empty
ExplicitOverride ==
    IF Positional \notin { None, "" } THEN Positional
    ELSE IF wrapper[1].override_input_key \notin { None, "" }
    THEN request_parameter
    ELSE None

HasOverride == ExplicitOverride \notin { None, "" }

IsBound(renderers, shortname) ==
    \E i \in 1..Len(renderers) : renderers[i][1] = shortname

Binding(renderers, shortname) ==
    renderers[CHOOSE i \in 1..Len(renderers) : renderers[i][1] = shortname][2]

Canonical(shortname) == registry.types[shortname][1]

\* the headers the handler returned with its payload
HandlerHeaderList ==
    IF result.shape # "tuple3" THEN <<>>
    ELSE IF result.headers_type = "dict"
    THEN [ i \in 1..Len(result.header_dict) |->
             << result.header_dict[i].key, result.header_dict[i].value >> ]
    ELSE result.headers

HandlerSetsContentType ==
    \E i \in 1..Len(HandlerHeaderList) : IsContentType(HandlerHeaderList[i])

WithCharset(mime, charset) ==
    IF charset \in { None, "" } THEN << mime >>
    ELSE << mime, "; charset=", charset >>

\* the Content-Type values of a header list, in order
ContentTypeValues(hs) ==
    LET idx == { i \in 1..Len(hs) : IsContentType(hs[i]) }
    IN  { hs[i][2] : i \in idx }

LastEmitted == emitted[Len(emitted)]

\* the Content-Type a response of the handler's wrapper carries for a
\* selected media type: the handler's own, else the media type and charset
ExpectedContentTypes(mime) ==
    IF HandlerSetsContentType THEN ContentTypeValues(HandlerHeaderList)
    ELSE { WithCharset(mime, wrapper[1].charset) }

\* C1: override always wins: when the explicit override (positional argument
\* or request parameter) is non-empty and names a configured format, the
\* media type is that format's first media type and the renderer is that
\* format's binding; media type, renderer, body and Content-Type are
\* determined without the Accept header, so two requests that differ only
\* in it agree on them.
C1_OverrideWins ==
    (MainNegotiated /\ PositionalPresent /\ HasOverride
       /\ IsBound(wrapper[1].renderers, ExplicitOverride)) =>
        /\ negotiated.kind = "selected"
        /\ negotiated.shortmime = ExplicitOverride
        /\ negotiated.mime = Canonical(ExplicitOverride)
        /\ negotiated.renderer = Binding(wrapper[1].renderers, ExplicitOverride)
        /\ callback_calls = <<>>
        /\ Len(emitted) <= 1
        /\ emitted # <<>> =>
               /\ emitted[1].content =
                      [ by |-> Binding(wrapper[1].renderers, ExplicitOverride),
                        of |-> result.payload ]
               /\ ContentTypeValues(emitted[1].headers) =
                      ExpectedContentTypes(Canonical(ExplicitOverride))

\* the override names xml while the header asks for json, which is bound
\* too, and the response has been emitted
C1_Witness ==
    /\ MainNegotiated
    /\ PositionalPresent
    /\ pc = "done"
    /\ ExplicitOverride = "xml"
    /\ accept_header = << << Range_("application/json", 10) >> >>
    /\ IsBound(wrapper[1].renderers, "json")
    /\ Len(emitted) = 1
    /\ emitted[1].content.by = RendererOf("xml")

NoOverride == PositionalPresent /\ ~HasOverride

\* C2: default wins ties: with two or more bound formats and a designated
\* default, a request without override whose Accept header is "*/*" selects
\* the default format's first media type and its renderer, whichever format
\* the default is.
C2_DefaultWinsTies ==
    (MainNegotiated /\ NoOverride
       /\ accept_header = << << Range_("*/*", 10) >> >>
       /\ Len(wrapper[1].renderers) >= 2
       /\ wrapper[1].default \notin { None, "" }) =>
        /\ negotiated.kind = "selected"
        /\ negotiated.mime = Canonical(wrapper[1].default)
        /\ negotiated.shortmime = wrapper[1].default
        /\ negotiated.renderer =
               Binding(wrapper[1].renderers, wrapper[1].default)
        /\ emitted # <<>> =>
               emitted[1].content.by =
                   Binding(wrapper[1].renderers, wrapper[1].default)

\* xml is the default and the first binding, json the second, and "*/*"
\* has selected application/xml
C2_Witness ==
    /\ MainNegotiated
    /\ NoOverride
    /\ accept_header = << << Range_("*/*", 10) >> >>
    /\ wrapper[1].default = "xml"
    /\ wrapper[1].renderers =
           << << "xml", RendererOf("xml") >>, << "json", RendererOf("json") >> >>
    /\ negotiated.mime = "application/xml"
    /\ Len(emitted) = 1

\* C3: the context is cleared on every path: once the dispatch wrapper has
\* returned or raised, none of mimerender_shortmime, mimerender_mime and
\* mimerender_renderer is set in the adapter's context.
C3_ContextCleared ==
    pc \in { "done", "caught" } => DOMAIN ctx \cap ContextKeys = {}

\* the handler ran with the context set and raised, and the exception has
\* left the wrapper
C3_Witness ==
    /\ pc = "done"
    /\ phase = "main"
    /\ handler_calls = 1
    /\ raised = "Exception"
    /\ negotiated.kind = "selected"
    /\ DOMAIN ctx = {}

\* a header that best_match cannot parse
MalformedAccept == Truthy(accept_header) /\ ~HeaderParses(accept_header[1])

\* C4: a request without override whose Accept header is malformed, such as
\* the bare "text", is answered "400 Bad Request" with Content-Type
\* text/plain and the body "Invalid Accept header requested"; neither the
\* handler nor a renderer is invoked and nothing is raised to the caller.
C4_MalformedAcceptIs400 ==
    (MainNegotiated /\ NoOverride /\ MalformedAccept) =>
        /\ raised = None
        /\ handler_calls = 0
        /\ renderer_calls = <<>>
        /\ Len(emitted) = 1
        /\ emitted[1].status = "400 Bad Request"
        /\ ContentTypeValues(emitted[1].headers) = { << "text/plain" >> }
        /\ emitted[1].content.of = "Invalid Accept header requested"

\* the header parses and best match finds none of the supported types
NothingAcceptable ==
    /\ Truthy(accept_header)
    /\ HeaderParses(accept_header[1])
    /\ BestMatch(wrapper[1].supported, accept_header[1]) = ""

BoundMediaTypes ==
    UNION { Range(registry.types[wrapper[1].renderers[i][1]]) :
              i \in 1..Len(wrapper[1].renderers) }

\* C5: without override, with a non-empty Accept header for which best
\* match finds nothing, and a not-acceptable callback configured, the
\* callback is invoked once with the Accept header and the supported media
\* types and the response is emitted at once: "406 Not Acceptable", the
\* callback's media type as Content-Type, the callback's body; no handler
\* and no renderer is invoked and no context variable is set.
C5_NotAcceptableCallback ==
    (MainNegotiated /\ NoOverride /\ NothingAcceptable
       /\ wrapper[1].not_acceptable_callback \notin { None, "" }) =>
        /\ pc = "done"
        /\ raised = None
        /\ Len(callback_calls) = 1
        /\ callback_calls[1].accept_header = accept_header
        /\ Range(callback_calls[1].supported) = BoundMediaTypes
        /\ emitted =
               << [ content |-> [ by |-> wrapper[1].not_acceptable_callback,
                                  of |-> "entity" ],
                    headers |-> << << "Content-Type", << "text/plain" >> >> >>,
                    status |-> "406 Not Acceptable" ] >>
        /\ handler_calls = 0
        /\ renderer_calls = <<>>
        /\ DOMAIN ctx = {}

\* image/png was asked of a configuration with a callback, and the 406 has
\* been emitted
C5_Witness ==
    /\ MainNegotiated
    /\ NoOverride
    /\ accept_header = << << Range_("image/png", 10) >> >>
    /\ wrapper[1].not_acceptable_callback = "not_acceptable_callback"
    /\ Len(callback_calls) = 1
    /\ Len(emitted) = 1
    /\ status = "406 Not Acceptable"

\* the format a configuration falls back on: the designated default, else
\* the first binding
DefaultFormat ==
    IF wrapper[1].default \notin { None, "" } THEN wrapper[1].default
    ELSE wrapper[1].renderers[1][1]

\* C6: without override, with an Accept header that matches none of the
\* supported media types and no not-acceptable callback, the request is
\* not an error: the handler is invoked, its payload is rendered by the
\* default format's renderer, and the response to a handler that returns
\* its payload alone is "200 OK" with the default format's first media type
\* as the Content-Type's media type.
C6_FallsBackToDefault ==
    (MainNegotiated /\ NoOverride /\ NothingAcceptable
       /\ wrapper[1].not_acceptable_callback \in { None, "" }) =>
        /\ negotiated.kind = "selected"
        /\ negotiated.mime = Canonical(DefaultFormat)
        /\ negotiated.renderer = Binding(wrapper[1].renderers, DefaultFormat)
        /\ pc = "handler" \/ handler_calls = 1
        /\ callback_calls = <<>>
        /\ (pc = "done" /\ raised = None) =>
               /\ Len(emitted) = 1
               /\ emitted[1].content =
                      [ by |-> Binding(wrapper[1].renderers, DefaultFormat),
                        of |-> result.payload ]
               /\ result.shape \in { "dict", "tuple1" } =>
                      /\ emitted[1].status = "200 OK"
                      /\ \A v \in ContentTypeValues(emitted[1].headers) :
                             Head(v) = Canonical(DefaultFormat)
                      /\ ContentTypeValues(emitted[1].headers) # {}

\* json is the default, xml the first binding, image/png was asked, and
\* the handler's bare payload has been answered
C6_Witness ==
    /\ MainNegotiated
    /\ NoOverride
    /\ pc = "done"
    /\ accept_header = << << Range_("image/png", 10) >> >>
    /\ wrapper[1].default = "json"
    /\ wrapper[1].renderers[1][1] = "xml"
    /\ result.shape = "dict"
    /\ Len(emitted) = 1
    /\ status = "200 OK"

\* C7: every response handed to the host adapter carries a Content-Type
\* header and a Vary header whose value contains Accept.
C7_EveryResponseVaries ==
    \A i \in 1..Len(emitted) :
        /\ \E k \in 1..Len(emitted[i].headers) :
               IsContentType(emitted[i].headers[k])
        /\ \E k \in 1..Len(emitted[i].headers) :
               /\ IsVary(emitted[i].headers[k])
               /\ \E c \in Range(emitted[i].headers[k][2]) :
                      Lower(c) = "accept"

\* the configuration of the wrapper that emitted the last response
Responder == IF phase = "main" THEN wrapper[1] ELSE helper[1]

\* C10: the handler's Content-Type wins: when the handler's headers hold a
\* Content-Type in any letter case, the response keeps each one as it is and
\* gets no negotiated Content-Type; when they hold none, the response gets
\* exactly one Content-Type header, whose value is the negotiated media
\* type, followed by "; charset=<value>" when a charset is configured.
C10_HandlerContentTypeWins ==
    (pc = "done" /\ raised = None /\ negotiated.kind = "selected") =>
        LET out == LastEmitted.headers
            own == { i \in 1..Len(HandlerHeaderList) :
                       IsContentType(HandlerHeaderList[i]) }
            all == { j \in 1..Len(out) : IsContentType(out[j]) }
        IN  /\ emitted # <<>>
            /\ Len(out) >= Len(HandlerHeaderList)
            /\ own # {} =>
                   /\ all = own
                   /\ \A i \in own : out[i] = HandlerHeaderList[i]
            /\ own = {} =>
                   /\ Cardinality(all) = 1
                   /\ \A j \in all :
                          out[j] =
                              << "Content-Type",
                                 IF Responder.charset \in { None, "" }
                                 THEN << negotiated.mime >>
                                 ELSE << negotiated.mime, "; charset=",
                                         Responder.charset >> >>

\* a charset is configured, the handler set no Content-Type, and the
\* response carries the media type with the charset
C10_Witness ==
    /\ pc = "done"
    /\ raised = None
    /\ phase = "main"
    /\ negotiated.kind = "selected"
    /\ wrapper[1].charset = "utf-8"
    /\ ~HandlerSetsContentType
    /\ Len(emitted) = 1
    /\ << "Content-Type", << negotiated.mime, "; charset=", "utf-8" >> >>
           \in Range(emitted[1].headers)

(***************************************************************************)
(* The shapes of the handler's result.                                     *)
(***************************************************************************)
\* a renderer was selected, called with the payload, and its output emitted
Rendered ==
    /\ pc = "done"
    /\ raised = None
    /\ negotiated.kind = "selected"

\* the headers of the response past the first n are fixup's own
OnlyFixupAfter(out, n) ==
    \A j \in 1..Len(out) :
        j > n => out[j][1] \in { "Vary", "Content-Type" }

\* the number of headers the handler gave in its 3-tuple
GivenLen ==
    IF result.headers_type = "dict" THEN Len(result.header_dict)
    ELSE Len(result.headers)

\* C11: response normalisation by shape: the payload alone, or alone in a
\* 1-tuple, is answered with '200 OK' and no headers but fixup's Vary and
\* Content-Type; a 2-tuple with its status and no other headers; a 3-tuple
\* with its status and its headers in their order, a dictionary's entries
\* as (name, value) pairs, a Vary value possibly extended by fixup; in each
\* case the selected renderer was called with the payload and its output,
\* with that status, is what the adapter received.
C11_ResponseNormalization ==
    Rendered =>
        /\ emitted # <<>>
        /\ renderer_calls # <<>>
        /\ renderer_calls[Len(renderer_calls)] = negotiated.renderer
        /\ LastEmitted.content =
               [ by |-> negotiated.renderer, of |-> result.payload ]
        /\ status = LastEmitted.status
        /\ result.shape \in { "dict", "tuple1", "tuple2", "tuple3" }
        /\ result.shape \in { "dict", "tuple1" } =>
               /\ LastEmitted.status = "200 OK"
               /\ OnlyFixupAfter(LastEmitted.headers, 0)
        /\ result.shape = "tuple2" =>
               /\ LastEmitted.status = result.status
               /\ OnlyFixupAfter(LastEmitted.headers, 0)
        /\ result.shape = "tuple3" =>
               /\ LastEmitted.status = result.status
               /\ Len(LastEmitted.headers) >= GivenLen
               /\ OnlyFixupAfter(LastEmitted.headers, GivenLen)
               /\ \A i \in 1..GivenLen :
                      LET given == IF result.headers_type = "dict"
                                   THEN << result.header_dict[i].key,
                                           result.header_dict[i].value >>
                                   ELSE result.headers[i]
                          got == LastEmitted.headers[i]
                      IN  /\ got[1] = given[1]
                          /\ ~IsVary(given) => got[2] = given[2]
                          /\ IsVary(given) =>
                                 got[2] \in { given[2],
                                              given[2] \o << ",", "Accept" >> }

\* a 3-tuple with a dictionary of two headers was answered with its status
\* and with the dictionary's X-Y entry as a pair
C11_Witness ==
    /\ Rendered
    /\ phase = "main"
    /\ result.shape = "tuple3"
    /\ result.headers_type = "dict"
    /\ Len(result.header_dict) = 2
    /\ status = "666 Armaggedon"
    /\ Len(emitted) = 1
    /\ emitted[1].headers[2] = << "X-Y", << "Z" >> >>

\* the handler returned a tuple of none of the lengths 1, 2, 3
Unrecognized ==
    /\ result.shape # None
    /\ result.shape \notin { "dict", "tuple1", "tuple2", "tuple3" }

\* C12: a handler result of no recognised shape (an empty tuple, a tuple of
\* four elements) fails the request: the step that looks at it raises
\* ValueError out of the wrapper, calls no renderer and hands nothing to the
\* adapter, the context variables being cleared already; and a request that
\* ended on such a result ended with that ValueError, no renderer call and
\* no response.
C12_MalformedResultFails ==
    /\ [][(pc = "returned" /\ Unrecognized) =>
            /\ raised' = "ValueError"
            /\ pc' \in { "caught", "done" }
            /\ mapping = <<>> => pc' = "done"
            /\ renderer_calls' = renderer_calls
            /\ emitted' = emitted
            /\ status' = status
            /\ headers' = headers
            /\ DOMAIN ctx \cap ContextKeys = {}
            /\ DOMAIN ctx' \cap ContextKeys = {}]_vars
    /\ [](pc = "done" /\ Unrecognized =>
            /\ raised = "ValueError"
            /\ renderer_calls = <<>>
            /\ emitted = <<>>
            /\ status = None)

\* a handler returned a 4-tuple and the request ended with the ValueError
C12_Witness ==
    /\ pc = "done"
    /\ result.shape = "tuple4"
    /\ handler_calls = 1
    /\ raised = "ValueError"
    /\ emitted = <<>>
    /\ renderer_calls = <<>>
    /\ DOMAIN ctx \cap ContextKeys = {}

(***************************************************************************)
(* Configuration errors.                                                   *)
(***************************************************************************)
\* the default the decoration works with: its own, else the instance's
GivenDefault ==
    IF config[1].default \notin { None, "" } THEN config[1].default
    ELSE self.global_default

\* no renderer at all, a renderer for a format the registry does not know,
\* or a default that is not registered or has no renderer
BadConfig ==
    /\ config # <<>>
    /\ \/ config[1].renderers = <<>>
       \/ \E i \in 1..Len(config[1].renderers) :
              config[1].renderers[i][1] \notin DOMAIN registry.types
       \/ /\ GivenDefault \notin { None, "" }
          /\ \/ GivenDefault \notin DOMAIN registry.types
             \/ ~IsBound(config[1].renderers, GivenDefault)

\* C13: configuration errors are raised at decoration time: a decoration
\* with no renderer, with a renderer for an unregistered format, or with a
\* default (its own or the instance's) that is unregistered or has no
\* renderer ends in an exception; it produces no wrapper, so no handler is
\* called, no renderer runs and nothing is emitted, and nothing happens
\* after the exception.
C13_ConfigErrorsEager ==
    /\ [](BadConfig =>
            /\ pc = "config_error"
            /\ config_error \in { "ValueError", "MimeRenderException" }
            /\ wrapper = <<>>
            /\ helper = <<>>
            /\ handler_calls = 0
            /\ renderer_calls = <<>>
            /\ callback_calls = <<>>
            /\ emitted = <<>>)
    /\ [](config # <<>> /\ ~BadConfig => wrapper # <<>> /\ config_error = None)
    /\ [][pc # "config_error"]_vars

\* a decoration whose default names the unregistered "svg", with renderers
\* for registered formats only, raised MimeRenderException
C13_Witness ==
    /\ pc = "config_error"
    /\ config_error = "MimeRenderException"
    /\ config[1].default = "svg"
    /\ config[1].renderers # <<>>
    /\ \A i \in 1..Len(config[1].renderers) :
           config[1].renderers[i][1] \in DOMAIN registry.types
    /\ wrapper = <<>>
    /\ handler_calls = 0

(***************************************************************************)
(* Properties of the registry (SpecReg).                                   *)
(***************************************************************************)
\* C14: the registry is immutable: no step changes or removes the sequence
\* of a short name that is registered, baseline or not, so every short name
\* keeps the sequence it was first given; register_mime for a registered
\* short name raises MimeRenderException and leaves the whole registry as
\* it was; register_mime for a new short name adds that name with the
\* sequence given, and nothing else.
C14_RegistryImmutable ==
    [][/\ \A s \in DOMAIN registry.types :
              /\ s \in DOMAIN registry'.types
              /\ registry'.types[s] = registry.types[s]
       /\ lookup'.op # "register_mime" => registry' = registry
       /\ lookup'.op = "register_mime" =>
              IF lookup'.shortmime \in DOMAIN registry.types
              THEN /\ registry' = registry
                   /\ raised' = "MimeRenderException"
              ELSE /\ raised' = None
                   /\ DOMAIN registry'.types =
                          DOMAIN registry.types \cup { lookup'.shortmime }
                   /\ registry'.types[lookup'.shortmime] =
                          lookup'.mime_types]_vars

\* "svg" was registered, a later call of register_mime for "svg" with
\* another sequence raised, and "xml" and "svg" have the sequences they
\* were first given
C14_Witness ==
    /\ pc = "registry"
    /\ "svg" \in DOMAIN registry.types
    /\ registry.types["svg"] = << "text/xml", "image/svg+xml" >>
    /\ registry.types["xml"] =
           << "application/xml", "text/xml", "application/x-xml" >>
    /\ lookup.op = "register_mime"
    /\ lookup.shortmime = "svg"
    /\ lookup.mime_types = << "image/svg+xml" >>
    /\ raised = "MimeRenderException"

\* the media types of the registered formats
RegisteredMimes ==
    UNION { Range(registry.types[s]) : s \in DOMAIN registry.types }

\* C15: the registry's round trip: after any registrations, a lookup of a
\* media type that some format's sequence holds returns a short name whose
\* sequence holds it, and a lookup of a media type that no sequence holds
\* raises MimeRenderException.
C15_RegistryRoundTrip ==
    [][lookup'.op = "_get_short_mime" =>
           IF lookup'.mime \in RegisteredMimes
           THEN /\ lookup'.shortmime \in DOMAIN registry.types
                /\ lookup'.mime \in Range(registry.types[lookup'.shortmime])
                /\ lookup'.mime \in Range(lookup'.mime_types)
                /\ raised' = None
           ELSE /\ lookup'.shortmime = None
                /\ raised' = "MimeRenderException"]_vars

\* "image/svg+xml", the second media type of the newly registered "svg",
\* was looked up and led back to "svg"
C15_Witness ==
    /\ pc = "registry"
    /\ lookup.op = "_get_short_mime"
    /\ lookup.mime = "image/svg+xml"
    /\ lookup.shortmime = "svg"
    /\ lookup.mime_types = << "text/xml", "image/svg+xml" >>
    /\ raised = None

(***************************************************************************)
(* Exception mapping.                                                      *)
(***************************************************************************)
\* exc is an instance of klass: of the class itself or of a subclass
InstanceOf(exc, klass) ==
    \/ exc = klass
    \/ exc = "MyException2" /\ klass \in { "MyException1", "Exception" }
    \/ exc = "MyException1" /\ klass = "Exception"
    \/ /\ exc \in { "MimeRenderException", "ValueError", "IndexError",
                    "TypeError", "MimeTypeParseException" }
       /\ klass = "Exception"
    \/ exc = "MimeTypeParseException" /\ klass = "ValueError"

SubclassFirst ==
    << << "MyException2", "500 Crazy Internal Error" >>,
       << "MyException1", "400 Failed" >> >>

\* C16: the order of the mapping decides: helper runs with the exception
\* the handler raised and the status line of the first rule, in list
\* order, whose class the exception is an instance of, and a response it
\* produces carries that status; with the rules [MyException2,
\* MyException1], MyException2 being a MyException1, a MyException2 gets
\* MyException2's status and a MyException1 gets MyException1's.
C16_FirstMatchingRuleWins ==
    phase = "helper" =>
        /\ Len(target_args) = 2
        /\ \E i \in 1..Len(mapping) :
               /\ InstanceOf(target_args[1], mapping[i][1])
               /\ target_args[2] = mapping[i][2]
               /\ \A j \in 1..(i - 1) :
                      ~InstanceOf(target_args[1], mapping[j][1])
        /\ mapping = SubclassFirst =>
               /\ target_args[1] = "MyException2" =>
                      target_args[2] = "500 Crazy Internal Error"
               /\ target_args[1] = "MyException1" =>
                      target_args[2] = "400 Failed"
        /\ Rendered => status = target_args[2]

\* with the subclass's rule first, a MyException2 of the handler was
\* answered with the subclass's status
C16_Witness ==
    /\ phase = "helper"
    /\ Rendered
    /\ mapping = SubclassFirst
    /\ handler_calls = 1
    /\ target_args[1] = "MyException2"
    /\ status = "500 Crazy Internal Error"

\* the exception in flight is an instance of no rule's class
Unmapped ==
    \A i \in 1..Len(mapping) : ~InstanceOf(raised, mapping[i][1])

\* C17: an unmapped failure is not swallowed: when the exception that left
\* the wrapped handler is an instance of no rule's class, map_exceptions'
\* wrapper lets that same exception go on to the caller; helper is not
\* entered, no renderer and no callback runs, and the adapter gets no
\* response.
C17_UnmappedReraised ==
    [][(pc = "caught" /\ Unmapped) =>
           /\ raised' = raised
           /\ pc' = "done"
           /\ phase' = "main"
           /\ target_args' = target_args
           /\ renderer_calls' = renderer_calls
           /\ callback_calls' = callback_calls
           /\ emitted' = emitted
           /\ status' = status
           /\ headers' = headers]_vars

\* the handler raised an Exception that no rule names, and the request
\* ended with it and without a response
C17_Witness ==
    /\ pc = "done"
    /\ phase = "main"
    /\ mapping # <<>>
    /\ handler_calls = 1
    /\ raised = "Exception"
    /\ renderer_calls = <<>>
    /\ emitted = <<>>

\* C18: a mapped exception of the handler becomes a negotiated response and
\* does not propagate: once helper's wrapper is done for it, and unless the
\* renderer itself failed, no exception is in flight; a renderer of the exception configuration, selected by a
\* negotiation of that configuration against the request's Accept header,
\* was called with the exception as payload; the status is the matched
\* rule's, not '200 OK'; and the Content-Type is the media type that
\* negotiation selected.
C18_MappedExceptionAnswered ==
    (phase = "helper" /\ pc = "done" /\ raised # "TypeError") =>
        /\ raised = None
        /\ negotiated.kind = "selected"
        /\ negotiated.mime \in Range(helper[1].supported)
        /\ emitted # <<>>
        /\ LastEmitted.content =
               [ by |-> helper[1].renderer_dict[negotiated.mime],
                 of |-> target_args[1] ]
        /\ status = target_args[2]
        /\ status # "200 OK"
        /\ "Content-Type" \in DOMAIN headers
        /\ headers["Content-Type"] =
               WithCharset(negotiated.mime, helper[1].charset)

(***************************************************************************)
(* End to end.                                                             *)
(***************************************************************************)
\* the decoration of the tests' single variant: a renderer for xml alone,
\* no default or the default xml, no other option, on an instance without
\* options
SingleXmlVariant ==
    /\ self = NoGlobals
    /\ config # <<>>
    /\ config[1].renderers = << << "xml", "render_xml" >> >>
    /\ config[1].default \in { None, "xml" }
    /\ config[1].override_arg_idx = NoIdx
    /\ config[1].override_input_key = None
    /\ config[1].charset = None
    /\ config[1].not_acceptable_callback = None

\* C19: with the single renderer xml, with no default or the default xml,
\* no override and no Accept header, a handler that returns its payload is
\* answered with '200 OK', Content-Type text/xml and the xml renderer's
\* output for the payload.
C19_SingleVariantIsTextXml ==
    (/\ SingleXmlVariant
     /\ pc = "done"
     /\ phase = "main"
     /\ accept_header = NoHeader
     /\ result.shape = "dict"
     /\ raised = None) =>
        /\ status = "200 OK"
        /\ emitted # <<>>
        /\ LastEmitted.content = [ by |-> "render_xml", of |-> result.payload ]
        /\ "Content-Type" \in DOMAIN headers
        /\ headers["Content-Type"] = << "text/xml" >>

(***************************************************************************)
(* The positional override.                                                *)
(***************************************************************************)
\* the position, from 1, that the decoration's override_arg_idx names in
\* the handler's arguments
GivenPosition ==
    IF config[1].override_arg_idx[1] >= 0
    THEN config[1].override_arg_idx[1] + 1
    ELSE Len(target_args) + 1 + config[1].override_arg_idx[1]

\* C20: whatever override_arg_idx the decoration gives, 0 and negative
\* indexes included, a non-empty positional argument at that index that
\* names a format with a renderer is the override: the request is
\* negotiated to that format's first media type and short name, whatever
\* the Accept header and the request parameter are.
C20_PositionalOverrideAtAnyIndex ==
    (/\ phase = "main"
     /\ negotiated.kind # None
     /\ config[1].override_arg_idx # NoIdx
     /\ GivenPosition \in 1..Len(target_args)
     /\ target_args[GivenPosition] \notin { None, "" }
     /\ IsBound(config[1].renderers, target_args[GivenPosition])) =>
        /\ negotiated.kind = "selected"
        /\ negotiated.shortmime = target_args[GivenPosition]
        /\ negotiated.mime = Canonical(target_args[GivenPosition])

(***************************************************************************)
(* The order of the steps of a wrapper call (Spec).                        *)
(***************************************************************************)
\* how far a call has come; map_exceptions' catch comes after the steps of
\* the handler's wrapper and before those of helper's
Rank(p) ==
    IF p = "new" THEN 0
    ELSE IF p = "ready" THEN 1
    ELSE IF p = "handler" THEN 2
    ELSE IF p = "returned" THEN 3
    ELSE IF p = "caught" THEN 4
    ELSE 5

\* the target of the running wrapper is over in this step
TargetOver == pc = "handler" /\ pc' # "handler"

\* the target raised in this step
TargetRaised == TargetOver /\ raised' # None

\* the steps move forward: a call never goes back to an earlier step, and
\* only map_exceptions' catch starts another call, helper's
Forward ==
    /\ pc' # pc => Rank(pc') > Rank(pc) \/ pc = "caught"
    /\ pc' = pc => pc = "ready"

\* the target runs after the negotiation, with the context set to what was
\* negotiated, and once per call
TargetInOrder ==
    /\ handler_calls' # handler_calls =>
           TargetOver /\ phase = "main" /\ handler_calls' = handler_calls + 1
    /\ TargetOver =>
           /\ negotiated.kind = "selected"
           /\ ContextOf(ctx) =
                  [ k \in ContextKeys |-> ContextValue(negotiated, k) ]

\* the renderer runs once, on a recognised result, after the target has
\* returned and the context has been cleared
RenderInOrder ==
    renderer_calls' # renderer_calls =>
        /\ pc = "returned" /\ pc' # "returned"
        /\ DOMAIN ctx \cap ContextKeys = {}
        /\ Recognized(result)
        /\ renderer_calls' = Append(renderer_calls, negotiated.renderer)

\* the response is emitted once, as the last step, and but for the 406
\* answer right after the rendering, with the headers fixed
EmitLast ==
    emitted' # emitted =>
        /\ Len(emitted') = Len(emitted) + 1
        /\ pc' = "done"
        /\ raised' = None
        /\ LET e == emitted'[Len(emitted')]
           IN  e.status # "406 Not Acceptable" =>
                   /\ renderer_calls' # renderer_calls
                   /\ e.content.by = negotiated.renderer
                   /\ \E i \in 1..Len(e.headers) : IsVary(e.headers[i])
                   /\ \E i \in 1..Len(e.headers) :
                          IsContentType(e.headers[i])

\* an exception ends the call: the step that raises emits nothing and
\* calls no later step, and with an exception in flight nothing runs but
\* map_exceptions' catch
RaiseEnds ==
    /\ raised' # None /\ raised' # raised => emitted' = emitted
    /\ raised # None => pc = "caught"

\* C23 as stated: the steps of a request occur in the order negotiate, set
\* context, call handler, clear context, normalize, render, fix headers,
\* emit; handler, renderer and emit run at most once, emit is last, and
\* once any step raises no later step runs: in particular, once the handler
\* has raised, the step after it, the clearing of the context, does not run.
C23_StepOrdering ==
    /\ [][Forward /\ TargetInOrder /\ RenderInOrder /\ EmitLast
             /\ RaiseEnds]_vars
    /\ [][TargetOver /\ ~TargetRaised =>
              DOMAIN ctx' \cap ContextKeys = {}]_vars
    /\ [][TargetRaised => ctx' = ctx]_vars

\* C23 amended: the same order, the same at most once and emit last, and
\* once a step raises no later step of that wrapper call runs and nothing
\* is emitted, with one exception: when the handler raises, the context
\* variables are cleared all the same before the exception leaves.
C23_StepOrderingAmended ==
    /\ [][Forward /\ TargetInOrder /\ RenderInOrder /\ EmitLast
             /\ RaiseEnds]_vars
    /\ [][TargetOver => DOMAIN ctx' \cap ContextKeys = {}]_vars

\* the handler raised an exception nothing maps: the context is cleared,
\* no renderer ran and nothing was emitted
C23_Witness ==
    /\ pc = "done"
    /\ phase = "main"
    /\ handler_calls = 1
    /\ raised = "Exception"
    /\ DOMAIN ctx \cap ContextKeys = {}
    /\ renderer_calls = <<>>
    /\ emitted = <<>>

(***************************************************************************)
(* Properties of concurrent requests (SpecWsgi).                           *)
(***************************************************************************)
\* the context variables request r negotiated
OwnContext(r) ==
    [ k \in ContextKeys |-> ContextValue(req_negotiated[r], k) ]

\* C21: per-request state is request-scoped.  Under every interleaving of
\* the requests that go through the wrappers of one adapter instance, each
\* request reads the Accept header of its own environ, its handler finds
\* the context variables that request negotiated, the clearing takes that
\* request's own variables away (so no clearing fails and none are left
\* when the request is over), and every response is handed to the
\* start_response of the request that produced it, once.
C21_RequestScoped ==
    \A r \in DOMAIN req_pc :
        /\ req_pc[r] \notin { "idle", "entered" }
               => req_accept[r] = environ[r]["HTTP_ACCEPT"]
        /\ req_pc[r] \in { "clear", "returned" }
               \/ (req_pc[r] = "done" /\ req_seen[r] # <<>>)
               => req_seen[r] = OwnContext(r)
        /\ req_raised[r] # "KeyError"
        /\ req_pc[r] = "done" => DOMAIN environ[r] \cap ContextKeys = {}
        /\ \A i \in 1..Len(start_response[r]) : start_response[r][i].by = r
        /\ req_pc[r] = "done" /\ req_raised[r] = None
               => Len(start_response[r]) = 1

(***************************************************************************)
(* Properties of requests after registrations (SpecServe).                 *)
(***************************************************************************)
\* the handler of the decorated function is running
HandlerInvoked == pc = "handler" /\ phase = "main"

\* the handler's wrapper has answered with the rendered result
Answered ==
    /\ pc = "done"
    /\ phase = "main"
    /\ raised = None
    /\ handler_calls = 1
    /\ emitted # <<>>

\* C24: negotiation-result consistency, after any registrations: whenever
\* the handler is invoked the three context variables are set,
\* mimerender_mime is one of the registry's media types for
\* mimerender_shortmime, and mimerender_renderer is the renderer the
\* configuration bound to mimerender_shortmime; that renderer produces the
\* body, and the Content-Type the wrapper adds is mimerender_mime.
C24_NegotiationConsistent ==
    /\ HandlerInvoked =>
           /\ ContextKeys \subseteq DOMAIN ctx
           /\ ctx["mimerender_shortmime"] \in DOMAIN registry.types
           /\ ctx["mimerender_mime"] \in
                  Range(registry.types[ctx["mimerender_shortmime"]])
           /\ IsBound(config[1].renderers, ctx["mimerender_shortmime"])
           /\ ctx["mimerender_renderer"] =
                  Binding(config[1].renderers, ctx["mimerender_shortmime"])
           /\ ctx["mimerender_mime"] = negotiated.mime
           /\ ctx["mimerender_renderer"] = negotiated.renderer
    /\ Answered =>
           /\ LastEmitted.content.by = negotiated.renderer
           /\ ~HandlerSetsContentType =>
                  ContentTypeValues(LastEmitted.headers) =
                      { WithCharset(negotiated.mime, wrapper[1].charset) }
====
